---- MODULE Spec2Model ----
(***************************************************************************)
(* The persistence and coordination engine of the log-structured merge     *)
(* store: dual superblock, ring journal (WAL), manifest / level-0 tables,  *)
(* memtable and the single submission loop, with crash and reopen.         *)
(*                                                                         *)
(* Offsets are byte offsets as in the source.  Every journal record of the *)
(* model has a one byte key (or none) and a one byte value (or none), so   *)
(* every record and the PAD record encode to 24 bytes.  The journal region *)
(* is NSlots * 24 + 16 bytes: the source's 256 * 4096 bytes are            *)
(* 43690 * 24 + 16, the model keeps the remainder and scales the quotient. *)
(* MAX_INFLIGHT and max_size are scaled the same way (8 in the source).    *)
(*                                                                         *)
(* Two builds of the repository are modelled; they differ in               *)
(* SuperblockManager.checkpoint (epoch) and WAL_Manager.initFrom:          *)
(*   "src"    : src/utils.ts, src/types.ts                                 *)
(*   "bundle" : src/unnamed/part_003                                       *)
(* A third value of build, "old", selects TableIO.requestTable and         *)
(* flushWAL of src/lsm-tree.ts in the table layer (SpecTablesOld).         *)
(***************************************************************************)
EXTENDS Integers, Sequences, FiniteSets, TLC

\* ------------------------------------------------------------------ bounds
NSlots == 4
MAX_INFLIGHT == 2
max_size == 2
MaxOps == 3
MaxCrashes == 1
MaxSnap == 3

\* --------------------------------------------------------------- constants
BLOCK == 4096
SB_A_OFF == 0
SB_B_OFF == BLOCK
J_START == 2 * BLOCK
J_LENGTH == NSlots * 24 + ((256 * BLOCK) % 24)
MANIFEST_OFF == J_START + J_LENGTH
minHdr == 8 + 1 + 4 + 4
jStart == J_START
jEnd == jStart + J_LENGTH
\* MANIFEST_OFF with the journal length of the source: the offsets of the
\* table layer are computed from it, so that they keep their alignment.
manifestOff == J_START + 256 * BLOCK
ENTRY_SIZE == 48
HEADER_SIZE == 16
\* index.ts: wal.format(1073741824)
FILE_SIZE == 1073741824

Keys == {"a", "b"}
Values == {1, 2}
SetInputs == {<<"a", 1>>, <<"a", 2>>, <<"b", 1>>}
NoKey == ""
NoVal == 0
InitEpoch == 1

\* The operations a client dispatches (Operation of event-ring.ts).
ClientOps ==
  {[op |-> "set", key |-> kv[1], value |-> kv[2], src |-> "client"] : kv \in SetInputs}
  \cup {[op |-> "get", key |-> "a", value |-> NoVal, src |-> "client"]}
  \cup {[op |-> "check", key |-> NoKey, value |-> NoVal, src |-> "client"]}
  \cup {[op |-> "del", key |-> "a", value |-> NoVal, src |-> "client"]}

\* ----------------------------------------------------------------- helpers
alignUp(n, a) == ((n + (a - 1)) \div a) * a

\* The encoded key is 1 byte, or 9 bytes for LongKey.
LongKey == "longerkey"
KLen(k) == IF k = NoKey THEN 0 ELSE IF k = LongKey THEN 9 ELSE 1
VLen(v) == IF v = NoVal THEN 0 ELSE 1

\* WAL_Manager.encodeRecord: the journal cell of a record and its length.
encodeRecord(l, o) == [lsn |-> l, op |-> o.op, key |-> o.key, value |-> o.value]
RecLen(o) == alignUp(minHdr + KLen(o.key) + VLen(o.value), 8)

\* WAL_Manager.encodePad.
encodePad(l) == [lsn |-> l, op |-> "pad", key |-> NoKey, value |-> NoVal]
padBytes == alignUp(minHdr, 8)

\* Zero bytes decode as lsn 0, op 0 (PAD), klen 0, vlen 0.
ZeroCell == [lsn |-> 0, op |-> "pad", key |-> NoKey, value |-> NoVal]

\* Offsets at which a 24-byte cell may start; the last one holds only the 16
\* bytes left before jEnd (a cell written there runs 8 bytes past jEnd).
CellOffs == {jStart + 24 * i : i \in 0..NSlots}

VARIABLES
  build,        \* "src", "bundle" or "old"
  \* ---- disk
  sbA, sbB,     \* the two superblock slots
  journal,      \* journal region: cell offset -> cell
  padOverrun,   \* a PAD was written across jEnd into the manifest page
  diskManifest, \* number of entries of the manifest page on disk
  tables,       \* table blobs by manifest position: key -> value (NoTable: not written)
  clobbered,    \* listed tables of which a later write overwrote bytes
  \* ---- WAL_Manager
  head, tail, lsn, lsnToEnd,
  \* ---- SuperblockManager
  active, sb,
  \* ---- TableIO
  manifest,     \* number of entries of the in-memory manifest
  entries,      \* the in-memory manifest entries: [metaOff, metaLen]
  tableTail,    \* where the next table is placed
  \* ---- TableIO.flushWAL building the blocks of a table
  epc,          \* position in flushWAL: "idle", "sort", "push", "done"
  snap,         \* tree.toArray(): the records of the snapshot, in key order
  sorted,       \* the array after sort
  ei,           \* forEach: index of the next record of sorted
  parts,        \* the records of the block being filled
  curSize,      \* its size so far
  blocks,       \* the blocks sealed: [count, recs, len]
  \* ---- LSM
  memTable, freezeTable, recoverFlush,
  \* ---- EventRing
  q,            \* IntrusiveQueue
  pc,           \* position of runFor / tick
  batch, bi,    \* the batch taken and the index of the operation being applied
  off,          \* appendMany's write offset
  immQ,         \* pending setImmediate callbacks, in order
  loopCk,       \* the superblock checkpoint the loop is suspended in
  cks,          \* superblock checkpoints started by check callbacks, in flight
  mfWrites,     \* manifest page writes issued by updateManifest and not awaited
  \* ---- run bounds
  nOps, crashes,
  \* ---- history (read by the properties only)
  tornSlots,    \* slots holding a partially written superblock
  acc,          \* key -> values an acknowledged set of the key allows after a crash
  liveRecs,     \* records appended and not truncated, in order
  jrn,          \* the set records ever written to the journal: [lsn, key, off]
  batchHi,      \* highest LSN assigned to the batch in progress / just finished (0: none)
  batchJournaled, \* appendMany and the superblock checkpoint returned for the batch
  bootLsn, bootTail, bootLive, clientSinceBoot, flushedSinceBoot,
  seqCk,        \* no two superblock checkpoints overlapped since the file was opened
  tornBoot,     \* load() selected a partially written slot when the file was opened
  nDisp,        \* operations dispatched since the file was opened (replayed ones first)
  qIds,         \* for each operation of q, its number in dispatch order
  batchIds,     \* the same for batch
  jIds,         \* the operations appendMany wrote to the journal, in the order written
  done,         \* the operations applied and completed, in order, with the result
                \* handed to onComplete: [id, op, key, value, result, fl]
  nFlush,       \* memtable flushes (freeze and clear) since the file was opened
  \* ---- WAL_Manager driven alone, with records of several lengths
  wpc,          \* position in appendMany: "idle", "pad", "rec", "fsync", "full"
  nApp,         \* appendMany calls so far
  nPad,         \* PAD records written so far
  wrote,        \* the file.write calls of the appendMany call: [off, len, lsn, op]
  wLive,        \* the records appended and not truncated: [lsn, off, len]
  wLive0,       \* wLive when the appendMany call began
  \* ---- LSM and its two BTrees (memTable, freezeTable) as objects
  nodes,        \* BNode objects: id -> [kv, isShared] (NoNode: not allocated)
  mRoot,        \* memTable._root
  fRoot,        \* freezeTable._root (NoTree: freezeTable is null)
  fFrozen,      \* freezeTable.freeze() replaced clear, set and editRange
  snapAt,       \* the pairs memTable held when freeze() was called
  lastCall,     \* the last call: "put", "freeze", "clear", or on the snapshot
                \* "threw" / "modified" ("none" before the first call)
  nTree,        \* calls made on the LSM so far
  \* ---- Clock driven alone over a time source that may stall or step back
  cpc,          \* position in the getter now: "idle" or "wait" (in Atomics.wait)
  lastCurrent,  \* Clock.lastCurrent
  newest,       \* now's local newest
  retries,      \* now's local retries
  nowResult,    \* how the last call of now ended: "none", "returned", "threw"
  lastRet,      \* the value the last returning call returned (0: none yet)
  prevRet,      \* the value the returning call before it returned (0: none)
  nNow,         \* calls of now so far
  \* ---- a table on disk and a TableReader over it
  img,          \* the table blob as flushWAL wrote it (NoImg: none)
  rWant,        \* the records flushWAL pushed, in the order pushed
  rpc,          \* "closed", or "open" once readEntryHead returned the head
  rHead,        \* the head: [index, entryCount]
  rI,           \* TableReader.i
  rBlock,       \* TableReader.block (NoBlock: the empty array)
  rPos,         \* TableReader.localPos
  rIter,        \* TableReader.iter
  rOut,         \* the pairs next() returned so far
  rNulls        \* the calls of next() that returned null

diskVars == <<sbA, sbB, journal, padOverrun, diskManifest, tables>>
walVars == <<head, tail, lsn, lsnToEnd>>
sbmVars == <<active, sb>>
lsmVars == <<memTable, freezeTable, recoverFlush>>
erVars == <<q, pc, batch, bi, off, immQ>>
ioVars == <<loopCk, cks, mfWrites>>
tioVars == <<entries, tableTail, clobbered>>
encVars == <<epc, snap, sorted, ei, parts, curSize, blocks>>
obsVars == <<nDisp, qIds, batchIds, jIds, done, nFlush>>
wVars == <<wpc, nApp, nPad, wrote, wLive, wLive0>>
treeVars == <<nodes, mRoot, fRoot, fFrozen, snapAt, lastCall, nTree>>
clkVars == <<cpc, lastCurrent, newest, retries, nowResult, lastRet, prevRet, nNow>>
rdVars == <<img, rWant, rpc, rHead, rI, rBlock, rPos, rIter, rOut, rNulls>>
moreVars == <<clkVars, rdVars>>
subVars == <<wVars, treeVars, moreVars>>
histVars == <<tornSlots, acc, liveRecs, jrn, batchHi, batchJournaled,
              bootLsn, bootTail, bootLive, clientSinceBoot, flushedSinceBoot, seqCk, tornBoot>>
engineVars ==
  <<build, diskVars, walVars, sbmVars, manifest, tioVars, encVars, lsmVars, erVars, ioVars,
    nOps, crashes, histVars, obsVars>>
vars == <<build, diskVars, walVars, sbmVars, manifest, tioVars, encVars, lsmVars, erVars, ioVars,
          nOps, crashes, histVars, obsVars, subVars>>

\* ------------------------------------------------------------- superblock
\* encodeSB: the fields as the slot's bytes hold them (u16, u16, u64 x 4).
encodeSB(s) ==
  [version |-> s.version % 65536, blockSize |-> s.blockSize % 65536,
   epoch |-> s.epoch, checkpointLSN |-> s.checkpointLSN,
   jHead |-> s.jHead, jTail |-> s.jTail]

\* decodeSB returns null unless blockSize = BLOCK and version # 0.
decodeSBValid(buf) == ~(buf.blockSize # BLOCK \/ buf.version = 0)

\* SuperblockManager.formatInitial: the superblock written to both slots.
formatBase ==
  [version |-> 1, blockSize |-> BLOCK, epoch |-> InitEpoch, checkpointLSN |-> 0,
   jHead |-> J_START, jTail |-> J_START]

\* SuperblockManager.load throws "no valid superblocks".
loadFails(a, b) == ~decodeSBValid(a) /\ ~decodeSBValid(b)

\* SuperblockManager.load: the slot chosen (larger epoch, B on a tie).
loadActiveByEpoch(a, b) ==
  IF b.epoch > a.epoch THEN "B" ELSE IF a.epoch > b.epoch THEN "A" ELSE "B"
loadActive(a, b) ==
  IF decodeSBValid(a) /\ decodeSBValid(b)
  THEN IF b.epoch > a.epoch THEN "B"
       ELSE IF a.epoch > b.epoch THEN "A"
       ELSE "B"
  ELSE IF decodeSBValid(a) THEN "A" ELSE "B"

Slot(x) == IF x = "A" THEN sbA ELSE sbB
loadChosen == Slot(loadActive(sbA, sbB))

\* SuperblockManager.checkpoint, up to the write: the next superblock.
\* utils.ts: epoch: this.sb.epoch + 1n; part_003: epoch: update.epoch ?? this.sb.epoch
\* (no caller passes an epoch).
nextEpoch(e) == IF build = "bundle" THEN e ELSE e + 1
sbNext(cur, ckLsn, jh, jt) ==
  [version |-> cur.version, blockSize |-> BLOCK, epoch |-> nextEpoch(cur.epoch),
   checkpointLSN |-> ckLsn, jHead |-> jh, jTail |-> jt]

\* const targetOff = this.active === "A" ? SB_B_OFF : SB_A_OFF
targetSlot(act) == IF act = "A" THEN "B" ELSE "A"
flip(act) == IF act = "A" THEN "B" ELSE "A"

\* A superblock checkpoint in flight: built, target chosen, suspended in
\* file.write ("write") or in file.fsync ("fsync").
NoCk == [next |-> formatBase, target |-> "A", stage |-> "idle"]
ckBegin(cur, act, ckLsn, jh, jt) ==
  [next |-> sbNext(cur, ckLsn, jh, jt), target |-> targetSlot(act), stage |-> "write"]

\* ---------------------------------------------------------------- journal
getUsedNoWrap(h, t) == t - h
getUsed(h, t) == IF t >= h THEN t - h ELSE (jEnd - h) + (t - jStart)

normEndNone(o) == o
\* normalize: if we ended exactly at jEnd, the next offset is jStart
normEnd(o) == IF o = jEnd THEN jStart ELSE o

RECURSIVE batchBytesOf(_)
batchBytesOf(b) == IF b = <<>> THEN 0 ELSE RecLen(Head(b)) + batchBytesOf(Tail(b))

needsWrap(t, b) == t + batchBytesOf(b) > jEnd
needTotal(t, b) == batchBytesOf(b) + (IF needsWrap(t, b) THEN padBytes ELSE 0)
walFullNoPad(h, t, b) == (jEnd - jStart) - getUsed(h, t) < batchBytesOf(b)
walFull(h, t, b) == (jEnd - jStart) - getUsed(h, t) < needTotal(t, b)

\* WAL_Manager.scan(from, maxBytes) over the file: decodeAt from buffer offset 0
\* until the buffer ends or a header / body does not fit.  A read that reaches
\* jEnd - 16 or beyond decodes the 16 bytes left of the journal and then the
\* manifest page; those bytes hold no record of the journal (the manifest
\* header decodes as a PAD, an entry's hashed prefixes as an over-long record),
\* so the scan yields nothing more from there.
RECURSIVE scanAt(_, _, _)
scanAt(j, o, end) ==
  IF o >= end \/ o + minHdr > end \/ o + 24 > jEnd THEN <<>>
  ELSE LET c == j[o] IN
       IF c.op = "pad" THEN scanAt(j, o + alignUp(minHdr, 8), end)
       ELSE IF o + minHdr + KLen(c.key) + VLen(c.value) > end THEN <<>>
       ELSE <<[lsn |-> c.lsn, op |-> c.op, key |-> c.key, value |-> c.value, off |-> o]>>
            \o scanAt(j, o + alignUp(minHdr + KLen(c.key) + VLen(c.value), 8), end)

scan(j, from, maxBytes) == scanAt(j, from, from + maxBytes)

\* WAL_Manager.initFrom: the lsn -> offset map after boot.
\* types.ts: the map stays empty.  part_003: for (const e of await
\* this.scan(this.head, this.tail)) this.lsnToEnd.set(e.lsn, this.head + e.off).
mapOf(es) ==
  [l \in {es[i].lsn : i \in 1..Len(es)} |->
     es[CHOOSE i \in 1..Len(es) :
          es[i].lsn = l /\ \A i2 \in (i + 1)..Len(es) : es[i2].lsn # l].off]

initFromMap(j, h, t) == IF build = "bundle" THEN mapOf(scan(j, h, t)) ELSE <<>>

\* WAL_Manager.checkpoint: the entries kept
\* (for (const k of this.lsnToEnd.keys()) if (k <= offset) this.lsnToEnd.delete(k)).
ckptKeep(m, offset) == [k \in {x \in DOMAIN m : ~(x <= offset)} |-> m[k]]

\* ------------------------------------------------------------ memtable
\* EventRing.submit, case "get": tree.get(key) || "".
getNone(mt, k) == NoVal
get(mt, k) == mt[k]

EmptyTable == [k \in Keys |-> NoVal]
size(t) == Cardinality({k \in Keys : t[k] # NoVal})
needsFlush(t) == size(t) >= max_size

\* The operation LSM.recover dispatches for a scanned record.
replayOp(r) == [op |-> r.op, key |-> r.key, value |-> r.value, src |-> "replay"]
RECURSIVE replayOps(_)
replayOps(rs) == IF rs = <<>> THEN <<>> ELSE <<replayOp(Head(rs))>> \o replayOps(Tail(rs))

\* IntrusiveQueue.takeUpTo(n)
takeFromTail(s, n) == SubSeq(s, Len(s) - (IF Len(s) < n THEN Len(s) ELSE n) + 1, Len(s))
takeUpTo(s, n) == SubSeq(s, 1, IF Len(s) < n THEN Len(s) ELSE n)
dropUpTo(s, n) == SubSeq(s, (IF Len(s) < n THEN Len(s) ELSE n) + 1, Len(s))

\* Math.floor((BLOCK - 16) / 48)
CAP == (BLOCK - 16) \div 48

\* flushWAL: the size of the table blob built from tree t (one byte keys and
\* values, one index entry).  lsm-tree.ts: blocks, index, footer; the later
\* variants: meta block, index, blocks.
tableSize(b, t) ==
  IF b = "old"
    THEN alignUp(2 + size(t) * (2 + 4 + 1 + 1), BLOCK) + alignUp(2 + 8 + 4 + 1, 8) + (8 + 4 + 4 + 2)
    ELSE BLOCK + alignUp(2 + 8 + 4 + 1, 8) + alignUp(2 + size(t) * (2 + 4 + 1 + 1), BLOCK)

\* TableIO.manifestEntryTail with n entries in the manifest.
manifestEntryTail(n) == manifestOff + HEADER_SIZE + n * ENTRY_SIZE

\* TableIO.load: tableTail rebuilt from the entries of the manifest page.
RECURSIVE loadTail(_)
loadTail(es) ==
  IF es = <<>> THEN manifestOff + BLOCK
  ELSE loadTail(SubSeq(es, 1, Len(es) - 1)) + alignUp(es[Len(es)].metaLen, BLOCK)

\* requestTable: the entry built for a table of sz bytes, and its size test.
newEntry(b, tt, sz) == [metaOff |-> tt, metaLen |-> IF b = "old" THEN tt + sz ELSE sz]
noRoom(b, tt, sz) == IF b = "old" THEN tt + sz > FILE_SIZE - tt ELSE sz > FILE_SIZE - tt

\* The byte ranges [o1, o1 + l1) and [o2, o2 + l2) share a byte.
Overlap(o1, l1, o2, l2) == o1 < o2 + l2 /\ o2 < o1 + l1

\* ------------------------------------------------- history helpers (ghost)
\* The records of the live region [h, t) read as a ring: from h up to jEnd (or
\* the PAD that marks the wrap), then from jStart up to t.
RECURSIVE ringLive(_, _, _)
ringLive(j, o, t) ==
  IF o = t THEN <<>>
  ELSE IF o + 24 > jEnd THEN ringLive(j, jStart, t)
  ELSE IF j[o].op = "pad"
       THEN (IF o > t THEN ringLive(j, jStart, t) ELSE ringLive(j, o + 24, t))
  ELSE <<j[o]>> \o ringLive(j, o + 24, t)

RECURSIVE dropUpToLsn(_, _)
dropUpToLsn(rs, l) ==
  IF rs = <<>> THEN <<>>
  ELSE IF Head(rs).lsn <= l THEN dropUpToLsn(Tail(rs), l)
  ELSE <<Head(rs)>> \o dropUpToLsn(Tail(rs), l)

\* values of the set operations of key k in a sequence of operations
SetValues(ops, k) == {ops[i].value : i \in {x \in 1..Len(ops) : ops[x].op = "set" /\ ops[x].key = k}}

\* ------------------------------------------------------------------- Init
\* index.ts opening an existing file: sbm.load, tio.load,
\* wal.initFrom(jHead, jTail, checkpointLSN), and LSM.recover when
\* wal.getUsed() > 0: scan(head, used), recoverFlush = lastLSN, one dispatch
\* per scanned record.
BootFrom(a, b, j) ==
  LET act1 == loadActive(a, b)
      S == IF act1 = "A" THEN a ELSE b
      used == getUsed(S.jHead, S.jTail)
      reqs == IF used > 0 THEN scan(j, S.jHead, used) ELSE <<>> IN
  [active |-> act1, sb |-> S, head |-> S.jHead, tail |-> S.jTail, lsn |-> S.checkpointLSN,
   lsnToEnd |-> initFromMap(j, S.jHead, S.jTail),
   recoverFlush |-> IF used > 0 THEN S.checkpointLSN ELSE -1,
   q |-> replayOps(reqs),
   live |-> ringLive(j, S.jHead, S.jTail)]

\* A file left by an earlier run that journaled set a=1 and set b=1 in one
\* batch, flushed them to a level-0 table, truncated the journal and stopped.
OldJournal ==
  [o \in CellOffs |->
     IF o = jStart THEN encodeRecord(1, [op |-> "set", key |-> "a", value |-> 1])
     ELSE IF o = jStart + 24 THEN encodeRecord(2, [op |-> "set", key |-> "b", value |-> 1])
     ELSE ZeroCell]
OldTable == [k \in Keys |-> 1]
OldEntry == newEntry("src", manifestOff + BLOCK, tableSize("src", OldTable))
OldSbB == encodeSB(sbNext(formatBase, 2, jStart, jStart + 48))
OldSbA == encodeSB(sbNext(OldSbB, 2, jStart + 48, jStart + 48))

\* The state index.ts starts the driver in.  On an empty file (fresh) it
\* formats instead of loading: the slots, head, tail and lsn are those a load
\* of the formatted file gives, but formatInitial makes slot A the active one.
MaxNodes == 4
MaxTreeOps == 6
NoNode == [kv |-> <<>>, isShared |-> FALSE]
NoTree == MaxNodes
\* EmptyLeaf: a shared node without keys.
EmptyLeaf == 0
NoPairs == [k \in {"a", "b"} |-> 0]
NoImg == [metaOff |-> 0]
NoHead == [index |-> <<>>, entryCount |-> 0]
\* new Uint8Array(0), and what a read of bytes never written gives (zeros).
NoBlock == [count |-> 0, recs |-> <<>>, len |-> 0]
InitSub ==
  /\ wpc = "idle" /\ nApp = 0 /\ nPad = 0 /\ wrote = {} /\ wLive = <<>> /\ wLive0 = <<>>
  /\ nodes = [i \in 0..(MaxNodes - 1) |->
               IF i = EmptyLeaf THEN [kv |-> NoPairs, isShared |-> TRUE] ELSE NoNode]
  /\ mRoot = EmptyLeaf /\ fRoot = NoTree /\ fFrozen = FALSE
  /\ snapAt = NoPairs /\ lastCall = "none" /\ nTree = 0
  /\ cpc = "idle" /\ lastCurrent = 0 /\ newest = 0 /\ retries = 0
  /\ nowResult = "none" /\ lastRet = 0 /\ prevRet = 0 /\ nNow = 0
  /\ img = NoImg /\ rWant = <<>> /\ rpc = "closed" /\ rHead = NoHead /\ rI = 1
  /\ rBlock = NoBlock /\ rPos = 0 /\ rIter = 0 /\ rOut = <<>> /\ rNulls = 0

InitFile(fresh, a, b, j, ents, tabs) ==
  LET B == BootFrom(a, b, j) IN
  /\ InitSub
  /\ sbA = a /\ sbB = b
  /\ journal = j
  /\ padOverrun = FALSE
  /\ diskManifest = Len(ents) /\ tables = tabs
  /\ entries = ents /\ tableTail = loadTail(ents) /\ clobbered = {}
  /\ epc = "idle" /\ snap = <<>> /\ sorted = <<>> /\ ei = 1
  /\ parts = <<>> /\ curSize = 2 /\ blocks = <<>>
  /\ head = B.head /\ tail = B.tail /\ lsn = B.lsn /\ lsnToEnd = B.lsnToEnd
  /\ active = (IF fresh THEN "A" ELSE B.active) /\ sb = B.sb
  /\ manifest = Len(ents)
  /\ memTable = EmptyTable /\ freezeTable = EmptyTable /\ recoverFlush = B.recoverFlush
  /\ q = B.q /\ pc = "yield" /\ batch = <<>> /\ bi = 1 /\ off = jStart
  /\ immQ = <<"tick">>
  /\ loopCk = NoCk /\ cks = <<>> /\ mfWrites = {}
  /\ nOps = 0 /\ crashes = 0
  /\ tornSlots = {}
  /\ acc = [k \in Keys |-> {tabs[i][k] : i \in 1..Len(tabs)} \ {NoVal}]
  /\ liveRecs = B.live
  /\ jrn = {[lsn |-> j[o].lsn, key |-> j[o].key, off |-> o] : o \in {x \in CellOffs : j[x].op = "set"}}
  /\ batchHi = 0 /\ batchJournaled = FALSE
  /\ bootLsn = B.lsn /\ bootTail = B.tail /\ bootLive = B.live
  /\ clientSinceBoot = FALSE /\ flushedSinceBoot = FALSE
  /\ seqCk = TRUE
  /\ tornBoot = FALSE
  /\ nDisp = Len(B.q) /\ qIds = [i \in 1..Len(B.q) |-> i] /\ batchIds = <<>>
  /\ jIds = <<>> /\ done = <<>> /\ nFlush = 0

InitFiles ==
  \/ InitFile(TRUE, encodeSB(formatBase), encodeSB(formatBase), [o \in CellOffs |-> ZeroCell], <<>>, <<>>)
  \/ InitFile(FALSE, OldSbA, OldSbB, OldJournal, <<OldEntry>>, <<OldTable>>)

Init == build = "src" /\ InitFiles
InitBundle == build = "bundle" /\ InitFiles

\* --------------------------------------------------------------- EventRing
\* EventRing.dispatch, called by a client while the loop is suspended (between
\* two ticks, in an await, or from a completion callback).
Dispatch(o) ==
  /\ pc \notin {"top", "dead", "hung"}
  /\ nOps < MaxOps
  /\ q' = Append(q, o)
  /\ nOps' = nOps + 1
  /\ nDisp' = nDisp + 1
  /\ qIds' = Append(qIds, nDisp + 1)
  /\ clientSinceBoot' = TRUE
  /\ acc' = IF o.op = "set" /\ acc[o.key] # {}
            THEN [acc EXCEPT ![o.key] = @ \cup {o.value}] ELSE acc
  /\ UNCHANGED <<subVars, encVars, tioVars, build, diskVars, walVars, sbmVars, manifest, lsmVars, pc, batch, bi, off,
                 immQ, ioVars, crashes, tornSlots, tornBoot, liveRecs, jrn, batchHi, batchJournaled,
                 bootLsn, bootTail, bootLive, flushedSinceBoot, seqCk,
                 batchIds, jIds, done, nFlush>>

\* runFor returns when its budget is over; tick re-arms itself with setImmediate.
Yield ==
  /\ pc = "top"
  /\ pc' = "yield"
  /\ immQ' = Append(immQ, "tick")
  /\ UNCHANGED <<subVars, obsVars, encVars, tioVars, build, diskVars, walVars, sbmVars, manifest, lsmVars, q, batch, bi, off,
                 ioVars, nOps, crashes, histVars>>

RunTick ==
  /\ pc = "yield" /\ immQ # <<>> /\ Head(immQ) = "tick"
  /\ pc' = "top"
  /\ immQ' = Tail(immQ)
  /\ UNCHANGED <<subVars, obsVars, encVars, tioVars, build, diskVars, walVars, sbmVars, manifest, lsmVars, q, batch, bi, off,
                 ioVars, nOps, crashes, histVars>>

\* runFor: takeUpTo(MAX_INFLIGHT), then either the recovery branch (no append)
\* or appendMany up to its first await.
TakeBatch ==
  /\ pc = "top" /\ q # <<>>
  /\ LET b == takeUpTo(q, MAX_INFLIGHT) IN
     /\ batch' = b
     /\ q' = dropUpTo(q, MAX_INFLIGHT)
     /\ batchIds' = takeUpTo(qIds, MAX_INFLIGHT)
     /\ qIds' = dropUpTo(qIds, MAX_INFLIGHT)
     /\ bi' = 1
     /\ batchHi' = 0 /\ batchJournaled' = FALSE
     /\ IF recoverFlush > 0
        THEN /\ recoverFlush' = -1
             /\ loopCk' = ckBegin(sb, active, lsn, head, tail)
             /\ pc' = "bSbWrite"
             /\ seqCk' = (seqCk /\ cks = <<>>)
             /\ off' = off
        ELSE /\ recoverFlush' = recoverFlush
             /\ loopCk' = loopCk
             /\ pc' = IF walFull(head, tail, b) THEN "dead"
                      ELSE IF needsWrap(tail, b) THEN "padWrite" ELSE "recWrite"
             /\ off' = tail
             /\ seqCk' = seqCk
  /\ UNCHANGED <<subVars, encVars, tioVars, build, diskVars, walVars, sbmVars, manifest, memTable, freezeTable, immQ,
                 cks, mfWrites, nOps, crashes, tornSlots, tornBoot, acc, liveRecs, jrn,
                 bootLsn, bootTail, bootLive, clientSinceBoot, flushedSinceBoot,
                 nDisp, jIds, done, nFlush>>

\* appendMany: the PAD write completed; tail wraps to jStart.
PadWriteDone ==
  /\ pc = "padWrite"
  /\ journal' = [journal EXCEPT ![tail] = encodePad(lsn)]
  /\ padOverrun' = (padOverrun \/ tail + padBytes > jEnd)
  /\ tail' = jStart
  /\ off' = jStart
  /\ pc' = "recWrite"
  /\ UNCHANGED <<subVars, obsVars, encVars, tioVars, build, sbA, sbB, diskManifest, tables, head, lsn, lsnToEnd, sbmVars, manifest,
                 lsmVars, q, batch, bi, immQ, ioVars, nOps, crashes, histVars>>

\* appendMany: the write of record bi completed; after the last one tail and
\* lsn are updated and the fsync is issued.
RecWriteDone ==
  /\ pc = "recWrite"
  /\ LET o == batch[bi]
         l == lsn + bi
         e == off + RecLen(o)
         last == bi = Len(batch) IN
     /\ journal' = [journal EXCEPT ![off] = encodeRecord(l, o)]
     /\ lsnToEnd' = (l :> normEnd(e)) @@ lsnToEnd
     /\ off' = IF last THEN jStart ELSE e
     /\ tail' = IF last THEN normEnd(e) ELSE tail
     /\ lsn' = IF last THEN lsn + Len(batch) ELSE lsn
     /\ bi' = IF last THEN 1 ELSE bi + 1
     /\ pc' = IF last THEN "appendFsync" ELSE "recWrite"
     /\ batchHi' = IF last THEN lsn + Len(batch) ELSE batchHi
     /\ liveRecs' = Append(liveRecs, encodeRecord(l, o))
     /\ jIds' = Append(jIds, batchIds[bi])
     /\ jrn' = IF o.op = "set" THEN jrn \cup {[lsn |-> l, key |-> o.key, off |-> off]} ELSE jrn
  /\ UNCHANGED <<subVars, encVars, tioVars, build, sbA, sbB, padOverrun, diskManifest, tables, head, sbmVars, manifest,
                 lsmVars, q, batch, immQ, ioVars, nOps, crashes, tornSlots, tornBoot, acc,
                 batchJournaled, bootLsn, bootTail, bootLive, clientSinceBoot,
                 flushedSinceBoot, seqCk, nDisp, qIds, batchIds, done, nFlush>>

\* appendMany returned; runFor calls sbManager.checkpoint, which builds the next
\* superblock and suspends in file.write.
AppendFsyncDone ==
  /\ pc = "appendFsync"
  /\ loopCk' = ckBegin(sb, active, lsn, head, tail)
  /\ pc' = "bSbWrite"
  /\ seqCk' = (seqCk /\ cks = <<>>)
  /\ UNCHANGED <<subVars, obsVars, encVars, tioVars, build, diskVars, walVars, sbmVars, manifest, lsmVars, q, batch, bi, off,
                 immQ, cks, mfWrites, nOps, crashes, tornSlots, tornBoot, acc, liveRecs, jrn,
                 batchHi, batchJournaled, bootLsn, bootTail, bootLive, clientSinceBoot,
                 flushedSinceBoot>>

\* SuperblockManager.checkpoint of the loop: the write to the target slot completed.
LoopSbWriteDone ==
  /\ pc \in {"bSbWrite", "fSbWrite"}
  /\ sbA' = IF loopCk.target = "A" THEN encodeSB(loopCk.next) ELSE sbA
  /\ sbB' = IF loopCk.target = "B" THEN encodeSB(loopCk.next) ELSE sbB
  /\ loopCk' = [loopCk EXCEPT !.stage = "fsync"]
  /\ pc' = IF pc = "bSbWrite" THEN "bSbFsync" ELSE "fSbFsync"
  /\ tornSlots' = tornSlots \ {loopCk.target}
  /\ UNCHANGED <<subVars, obsVars, encVars, tioVars, tornBoot, build, journal, padOverrun, diskManifest, tables, walVars, sbmVars, manifest,
                 lsmVars, q, batch, bi, off, immQ, cks, mfWrites, nOps, crashes, acc,
                 liveRecs, jrn, batchHi, batchJournaled, bootLsn, bootTail, bootLive,
                 clientSinceBoot, flushedSinceBoot, seqCk>>

\* SuperblockManager.checkpoint of the loop: fsync completed, flip active.  After
\* the per-batch checkpoint the loop schedules the first apply; after the
\* checkpoint that follows a flush it is back at the top of its loop.
LoopSbFsyncDone ==
  /\ pc \in {"bSbFsync", "fSbFsync"}
  /\ active' = flip(active)
  /\ sb' = loopCk.next
  /\ loopCk' = NoCk
  /\ pc' = IF pc = "bSbFsync" THEN "applyWait" ELSE "top"
  /\ immQ' = IF pc = "bSbFsync" THEN Append(immQ, "apply") ELSE immQ
  /\ batchJournaled' = IF pc = "bSbFsync" THEN batchHi > 0 ELSE batchJournaled
  /\ UNCHANGED <<subVars, obsVars, encVars, tioVars, build, diskVars, walVars, manifest, lsmVars, q, batch, bi, off, cks,
                 mfWrites, nOps, crashes, tornSlots, tornBoot, acc, liveRecs, jrn, batchHi,
                 bootLsn, bootTail, bootLive, clientSinceBoot, flushedSinceBoot, seqCk>>

\* The setImmediate callback of runFor for operation bi of the batch:
\* submit(tree, op), onComplete, then the loop goes on with the next operation
\* or, after the last one, with needsFlush / freeze / clear.  submit has no
\* case for "del": its promise never resolves and the loop stays suspended.
ApplyOp ==
  /\ pc = "applyWait" /\ immQ # <<>> /\ Head(immQ) = "apply"
  /\ LET o == batch[bi]
         mt == IF o.op = "set" THEN [memTable EXCEPT ![o.key] = o.value] ELSE memTable
         imm1 == Tail(immQ) \o (IF o.op = "check" THEN <<"ckpt">> ELSE <<>>)
         hang == o.op \notin {"set", "get", "check"}
         last == bi = Len(batch)
         fl == ~hang /\ last /\ needsFlush(mt)
         later == SetValues(SubSeq(batch, bi + 1, Len(batch)) \o q, o.key) IN
     /\ pc' = IF hang THEN "hung" ELSE IF ~last THEN "applyWait"
              ELSE IF fl THEN "flSize" ELSE "top"
     /\ immQ' = IF hang \/ last THEN imm1 ELSE Append(imm1, "apply")
     /\ bi' = IF hang THEN bi ELSE IF last THEN 1 ELSE bi + 1
     /\ batch' = IF last /\ ~hang THEN <<>> ELSE batch
     /\ batchIds' = IF last /\ ~hang THEN <<>> ELSE batchIds
     /\ done' = IF hang THEN done
                ELSE Append(done, [id |-> batchIds[bi], op |-> o.op, key |-> o.key,
                                   value |-> o.value, fl |-> nFlush,
                                   result |-> IF o.op = "get" THEN get(memTable, o.key)
                                              ELSE NoVal])
     /\ nFlush' = IF fl THEN nFlush + 1 ELSE nFlush
     /\ memTable' = IF fl THEN EmptyTable ELSE mt
     /\ freezeTable' = IF fl THEN mt ELSE freezeTable
     /\ flushedSinceBoot' = (flushedSinceBoot \/ fl)
     /\ acc' = IF o.op = "set" /\ o.src = "client"
               THEN [acc EXCEPT ![o.key] = {o.value} \cup later] ELSE acc
  /\ UNCHANGED <<subVars, encVars, tioVars, build, diskVars, walVars, sbmVars, manifest, recoverFlush, q, off,
                 ioVars, nOps, crashes, tornSlots, tornBoot, liveRecs, jrn, batchHi, batchJournaled,
                 bootLsn, bootTail, bootLive, clientSinceBoot, seqCk, nDisp, qIds, jIds>>

\* The setImmediate callback of a check operation:
\* walManager.checkpoint(walManager.getLastLSN(), sbManager) up to the write of
\* the superblock.  An LSN missing from lsnToEnd throws inside the callback.
CheckCallback ==
  /\ pc \notin {"top", "dead"} /\ immQ # <<>> /\ Head(immQ) = "ckpt"
  /\ immQ' = Tail(immQ)
  /\ IF lsn \notin DOMAIN lsnToEnd
     THEN /\ pc' = "dead"
          /\ UNCHANGED <<head, lsnToEnd, cks, liveRecs, seqCk>>
     ELSE /\ pc' = pc
          /\ head' = lsnToEnd[lsn]
          /\ lsnToEnd' = ckptKeep(lsnToEnd, lsnToEnd[lsn])
          /\ cks' = Append(cks, ckBegin(sb, active, lsn, lsnToEnd[lsn], tail))
          /\ liveRecs' = dropUpToLsn(liveRecs, lsn)
          /\ seqCk' = (seqCk /\ cks = <<>> /\ loopCk.stage = "idle")
  /\ UNCHANGED <<subVars, obsVars, encVars, tioVars, build, diskVars, tail, lsn, sbmVars, manifest, lsmVars, q, batch, bi, off,
                 loopCk, mfWrites, nOps, crashes, tornSlots, tornBoot, acc, jrn, batchHi,
                 batchJournaled, bootLsn, bootTail, bootLive, clientSinceBoot,
                 flushedSinceBoot>>

RemoveAt(s, i) == SubSeq(s, 1, i - 1) \o SubSeq(s, i + 1, Len(s))

\* SuperblockManager.checkpoint of a check callback: its write completed.
CkWriteDone(i) ==
  /\ pc # "dead" /\ cks[i].stage = "write"
  /\ sbA' = IF cks[i].target = "A" THEN encodeSB(cks[i].next) ELSE sbA
  /\ sbB' = IF cks[i].target = "B" THEN encodeSB(cks[i].next) ELSE sbB
  /\ cks' = [cks EXCEPT ![i].stage = "fsync"]
  /\ tornSlots' = tornSlots \ {cks[i].target}
  /\ UNCHANGED <<subVars, obsVars, encVars, tioVars, tornBoot, build, journal, padOverrun, diskManifest, tables, walVars, sbmVars, manifest,
                 lsmVars, erVars, loopCk, mfWrites, nOps, crashes, acc, liveRecs, jrn,
                 batchHi, batchJournaled, bootLsn, bootTail, bootLive, clientSinceBoot,
                 flushedSinceBoot, seqCk>>

\* SuperblockManager.checkpoint of a check callback: its fsync completed.
CkFsyncDone(i) ==
  /\ pc \notin {"top", "dead"} /\ cks[i].stage = "fsync"
  /\ active' = flip(active)
  /\ sb' = cks[i].next
  /\ cks' = RemoveAt(cks, i)
  /\ UNCHANGED <<subVars, obsVars, encVars, tioVars, build, diskVars, walVars, manifest, lsmVars, erVars, loopCk, mfWrites,
                 nOps, crashes, histVars>>

\* ----------------------------------------------------------------- TableIO
NoTable == EmptyTable

\* The tables written and listed by the manifest page on disk of which a
\* write of len bytes at o touches a byte.
Hit(o, len) ==
  {i \in 1..diskManifest :
     /\ i <= Len(tables) /\ tables[i] # NoTable
     /\ Overlap(o, len, entries[i].metaOff, entries[i].metaLen)}

\* flushWAL: the blob write at the entry's metaOff and its fsync completed
\* (lsm-tree.ts returns without writing the blob).
BlobWrite ==
  IF build = "old" THEN UNCHANGED <<tables, clobbered>>
  ELSE /\ tables' = [tables EXCEPT ![manifest] = freezeTable]
       /\ clobbered' = (clobbered \cup Hit(entries[manifest].metaOff, entries[manifest].metaLen))
                         \ {manifest}

\* flushWAL up to requestTable/addEntry: the table is built, file.size()
\* returned, the entry is pushed, updateManifest() is started and not awaited.
FlushRequestTable ==
  /\ pc = "flSize"
  /\ IF noRoom(build, tableTail, tableSize(build, freezeTable)) \/ manifest >= CAP
     THEN /\ pc' = "dead"
          /\ UNCHANGED <<manifest, entries, mfWrites, tables>>
     ELSE /\ pc' = "flEntry"
          /\ manifest' = manifest + 1
          /\ entries' = Append(entries, newEntry(build, tableTail, tableSize(build, freezeTable)))
          /\ mfWrites' = mfWrites \cup {manifest + 1}
          /\ tables' = IF Len(tables) < manifest + 1 THEN Append(tables, NoTable) ELSE tables
  /\ UNCHANGED <<subVars, obsVars, encVars, tableTail, clobbered, build, sbA, sbB, journal, padOverrun, diskManifest, walVars, sbmVars,
                 lsmVars, q, batch, bi, off, immQ, loopCk, cks, nOps, crashes, histVars>>

\* addEntry: the entry write at manifestEntryTail (read after the push) and its
\* fsync completed; requestTable moves tableTail; the table blob is written next.
FlushEntryDone ==
  /\ pc = "flEntry"
  /\ pc' = "flBlob"
  /\ clobbered' = clobbered \cup Hit(manifestEntryTail(manifest), ENTRY_SIZE)
  /\ tableTail' = IF build = "old" THEN tableTail
                  ELSE alignUp(entries[manifest].metaOff + entries[manifest].metaLen, BLOCK)
  /\ UNCHANGED <<subVars, obsVars, encVars, entries, build, diskVars, walVars, sbmVars, manifest, lsmVars, q, batch, bi, off,
                 immQ, ioVars, nOps, crashes, histVars>>

\* flushWAL: the blob write and fsync completed; back in runFor,
\* walManager.checkpoint(getLastLSN(), sbManager) runs up to the superblock write.
FlushBlobDone ==
  /\ pc = "flBlob"
  /\ BlobWrite
  /\ IF lsn \notin DOMAIN lsnToEnd
     THEN /\ pc' = "dead"
          /\ UNCHANGED <<head, lsnToEnd, loopCk, liveRecs, seqCk>>
     ELSE /\ pc' = "fSbWrite"
          /\ head' = lsnToEnd[lsn]
          /\ lsnToEnd' = ckptKeep(lsnToEnd, lsnToEnd[lsn])
          /\ loopCk' = ckBegin(sb, active, lsn, lsnToEnd[lsn], tail)
          /\ liveRecs' = dropUpToLsn(liveRecs, lsn)
          /\ seqCk' = (seqCk /\ cks = <<>>)
  /\ UNCHANGED <<subVars, obsVars, encVars, entries, tableTail, build, sbA, sbB, journal, padOverrun, diskManifest, tail, lsn, sbmVars,
                 manifest, lsmVars, q, batch, bi, off, immQ, cks, mfWrites, nOps, crashes,
                 tornSlots, tornBoot, acc, jrn, batchHi, batchJournaled, bootLsn, bootTail, bootLive,
                 clientSinceBoot, flushedSinceBoot>>

\* updateManifest: the write of the manifest page (with c entries) completed.
ManifestWriteDone(c) ==
  /\ pc # "dead" /\ c \in mfWrites
  /\ diskManifest' = c
  /\ mfWrites' = mfWrites \ {c}
  /\ clobbered' = clobbered \cup Hit(manifestOff, BLOCK)
  /\ UNCHANGED <<subVars, obsVars, encVars, entries, tableTail, build, sbA, sbB, journal, padOverrun, tables, walVars, sbmVars, manifest,
                 lsmVars, erVars, loopCk, cks, nOps, crashes, histVars>>

\* ------------------------------------------------------- crash and reopen
\* A superblock write cut by the crash: the first k fields of the slot hold
\* the new bytes, the others the old ones (fields in the order of encodeSB).
TornFields == <<"version", "blockSize", "epoch", "checkpointLSN", "jHead", "jTail">>
TornSB(old, new, k) ==
  [f \in {TornFields[i] : i \in 1..6} |->
     IF \E i \in 1..k : TornFields[i] = f THEN new[f] ELSE old[f]]
TornPrefixes == {3, 4, 5}

InflightWrites ==
  (IF loopCk.stage = "write" THEN {loopCk} ELSE {})
  \cup {cks[i] : i \in {x \in 1..Len(cks) : cks[x].stage = "write"}}

\* The process stops (crash, kill, or death by an uncaught error) and
\* index.ts runs again on the file.
Crash ==
  /\ crashes < MaxCrashes
  /\ crashes' = crashes + 1
  /\ \E w \in InflightWrites \cup {NoCk} :
     \E k \in (IF w.stage = "write" THEN TornPrefixes ELSE {0}) :
       LET torn == w.stage = "write"
           a1 == IF torn /\ w.target = "A" THEN TornSB(sbA, encodeSB(w.next), k) ELSE sbA
           b1 == IF torn /\ w.target = "B" THEN TornSB(sbB, encodeSB(w.next), k) ELSE sbB
           mixed == torn /\ Slot(w.target) # encodeSB(w.next)
                         /\ TornSB(Slot(w.target), encodeSB(w.next), k) # Slot(w.target)
       IN
       \E B \in {BootFrom(a1, b1, journal)} :
       /\ sbA' = a1 /\ sbB' = b1
       /\ tornSlots' = IF mixed THEN tornSlots \cup {w.target} ELSE tornSlots
       /\ tornBoot' = (B.active \in (IF mixed THEN tornSlots \cup {w.target} ELSE tornSlots))
       /\ active' = B.active /\ sb' = B.sb
       /\ head' = B.head /\ tail' = B.tail /\ lsn' = B.lsn
       /\ lsnToEnd' = B.lsnToEnd
       /\ recoverFlush' = B.recoverFlush
       /\ q' = B.q
       /\ nDisp' = Len(B.q) /\ qIds' = [i \in 1..Len(B.q) |-> i]
       /\ liveRecs' = B.live /\ bootLive' = B.live
       /\ bootLsn' = B.lsn /\ bootTail' = B.tail
  /\ manifest' = diskManifest
  /\ entries' = SubSeq(entries, 1, diskManifest)
  /\ tableTail' = loadTail(SubSeq(entries, 1, diskManifest))
  /\ memTable' = EmptyTable /\ freezeTable' = EmptyTable
  /\ pc' = "yield" /\ immQ' = <<"tick">> /\ batch' = <<>> /\ bi' = 1 /\ off' = jStart
  /\ loopCk' = NoCk /\ cks' = <<>> /\ mfWrites' = {}
  /\ batchHi' = 0 /\ batchJournaled' = FALSE
  /\ clientSinceBoot' = FALSE /\ flushedSinceBoot' = FALSE /\ seqCk' = TRUE
  /\ batchIds' = <<>> /\ jIds' = <<>> /\ done' = <<>> /\ nFlush' = 0
  /\ UNCHANGED <<subVars, encVars, build, journal, padOverrun, diskManifest, tables, clobbered, nOps, acc, jrn>>

\* A slot whose bytes were damaged while the process was down: the version
\* or the block size field reads zero.
CorruptKinds == {"version", "blockSize"}
corrupt(s, kind) == [s EXCEPT ![kind] = 0]

\* The process stops, one or both slots are damaged, and index.ts runs again
\* on the file: load() throws or the file is opened as after a crash.
CorruptReopen ==
  /\ crashes < MaxCrashes
  /\ crashes' = crashes + 1
  /\ \E which \in (SUBSET {"A", "B"}) \ {{}} : \E kind \in CorruptKinds :
       LET a1 == IF "A" \in which THEN corrupt(sbA, kind) ELSE sbA
           b1 == IF "B" \in which THEN corrupt(sbB, kind) ELSE sbB
       IN
       /\ sbA' = a1 /\ sbB' = b1
       /\ IF loadFails(a1, b1)
          THEN /\ pc' = "dead"
               /\ q' = <<>> /\ nDisp' = 0 /\ qIds' = <<>>
               /\ liveRecs' = <<>> /\ bootLive' = <<>>
               /\ UNCHANGED <<active, sb, head, tail, lsn, lsnToEnd, recoverFlush, tornBoot,
                              bootLsn, bootTail>>
          ELSE \E B \in {BootFrom(a1, b1, journal)} :
               /\ pc' = "yield"
               /\ tornBoot' = (B.active \in tornSlots)
               /\ active' = B.active /\ sb' = B.sb
               /\ head' = B.head /\ tail' = B.tail /\ lsn' = B.lsn
               /\ lsnToEnd' = B.lsnToEnd
               /\ recoverFlush' = B.recoverFlush
               /\ q' = B.q
               /\ nDisp' = Len(B.q) /\ qIds' = [i \in 1..Len(B.q) |-> i]
               /\ liveRecs' = B.live /\ bootLive' = B.live
               /\ bootLsn' = B.lsn /\ bootTail' = B.tail
  /\ manifest' = diskManifest
  /\ entries' = SubSeq(entries, 1, diskManifest)
  /\ tableTail' = loadTail(SubSeq(entries, 1, diskManifest))
  /\ memTable' = EmptyTable /\ freezeTable' = EmptyTable
  /\ immQ' = <<"tick">> /\ batch' = <<>> /\ bi' = 1 /\ off' = jStart
  /\ loopCk' = NoCk /\ cks' = <<>> /\ mfWrites' = {}
  /\ batchHi' = 0 /\ batchJournaled' = FALSE
  /\ clientSinceBoot' = FALSE /\ flushedSinceBoot' = FALSE /\ seqCk' = TRUE
  /\ batchIds' = <<>> /\ jIds' = <<>> /\ done' = <<>> /\ nFlush' = 0
  /\ UNCHANGED <<subVars, encVars, build, journal, padOverrun, diskManifest, tables, clobbered, nOps,
                 tornSlots, acc, jrn>>

\* ------------------------------------------------------------------- Next
Next ==
  \/ \E o \in ClientOps : Dispatch(o)
  \/ Yield
  \/ RunTick
  \/ TakeBatch
  \/ PadWriteDone
  \/ RecWriteDone
  \/ AppendFsyncDone
  \/ LoopSbWriteDone
  \/ LoopSbFsyncDone
  \/ ApplyOp
  \/ CheckCallback
  \/ \E i \in 1..Len(cks) : CkWriteDone(i)
  \/ \E i \in 1..Len(cks) : CkFsyncDone(i)
  \/ FlushRequestTable
  \/ FlushEntryDone
  \/ FlushBlobDone
  \/ \E c \in mfWrites : ManifestWriteDone(c)
  \/ Crash

\* the build of utils.ts / types.ts / event-ring.ts
Spec == Init /\ [][Next]_vars

\* the bundled build (part_003)
SpecBundle == InitBundle /\ [][Next]_vars

\* The steps of the loop, of the callbacks it schedules and of the I/O it
\* waits for.
LoopStep ==
  \/ Yield
  \/ RunTick
  \/ TakeBatch
  \/ PadWriteDone
  \/ RecWriteDone
  \/ AppendFsyncDone
  \/ LoopSbWriteDone
  \/ LoopSbFsyncDone
  \/ ApplyOp
  \/ CheckCallback
  \/ \E i \in 1..Len(cks) : CkWriteDone(i)
  \/ \E i \in 1..Len(cks) : CkFsyncDone(i)
  \/ FlushRequestTable
  \/ FlushEntryDone
  \/ FlushBlobDone
  \/ \E c \in mfWrites : ManifestWriteDone(c)

NextLive ==
  \/ \E o \in ClientOps : Dispatch(o)
  \/ LoopStep

NextLoad ==
  \/ \E o \in ClientOps : Dispatch(o)
  \/ LoopStep
  \/ CorruptReopen

\* Runs in which the file is reopened with damaged superblock slots.
SpecLoad == Init /\ [][NextLoad]_vars

\* A run without a crash in which every I/O completes, every callback runs,
\* and the driver keeps re-entering runFor, which takes a batch each time it
\* finds the queue non-empty.
SpecLive == Init /\ [][NextLive]_vars /\ WF_vars(LoopStep) /\ SF_vars(TakeBatch)

\* ------------------------------------------------------- the table layer
\* The table layer alone, on a freshly formatted file: the loop reaches its
\* flush branch again and again with a frozen memtable of max_size keys, the
\* journal stays empty.  A flush starts when the page write of the one before
\* has completed.
FlushedTree == [k \in Keys |-> 1]

FlushStart ==
  /\ pc = "yield" /\ mfWrites = {}
  /\ freezeTable' = FlushedTree
  /\ pc' = "flSize"
  /\ UNCHANGED <<subVars, obsVars, encVars, build, diskVars, walVars, sbmVars, manifest, tioVars, memTable, recoverFlush,
                 q, batch, bi, off, immQ, ioVars, nOps, crashes, histVars>>

\* flushWAL returns.
FlushReturn ==
  /\ pc = "flBlob"
  /\ BlobWrite
  /\ pc' = "yield"
  /\ UNCHANGED <<subVars, obsVars, encVars, build, sbA, sbB, journal, padOverrun, diskManifest, walVars, sbmVars, manifest,
                 entries, tableTail, lsmVars, q, batch, bi, off, immQ, ioVars, nOps, crashes,
                 histVars>>

\* The process stops and the file is opened again: TableIO.load.
Reopen ==
  /\ crashes < MaxCrashes
  /\ crashes' = crashes + 1
  /\ manifest' = diskManifest
  /\ entries' = SubSeq(entries, 1, diskManifest)
  /\ tableTail' = loadTail(SubSeq(entries, 1, diskManifest))
  /\ freezeTable' = EmptyTable
  /\ mfWrites' = {}
  /\ pc' = "yield"
  /\ UNCHANGED <<subVars, obsVars, encVars, build, diskVars, walVars, sbmVars, clobbered, memTable, recoverFlush, q, batch,
                 bi, off, immQ, loopCk, cks, nOps, histVars>>

NextTables ==
  \/ FlushStart
  \/ FlushRequestTable
  \/ FlushEntryDone
  \/ FlushReturn
  \/ \E c \in mfWrites : ManifestWriteDone(c)
  \/ Reopen

FreshFile ==
  InitFile(TRUE, encodeSB(formatBase), encodeSB(formatBase), [o \in CellOffs |-> ZeroCell], <<>>, <<>>)
InitTables == build = "src" /\ FreshFile
InitTablesOld == build = "old" /\ FreshFile

\* TableIO of part_002 (the same in part_003 and part_005)
SpecTables == InitTables /\ [][NextTables]_vars

\* TableIO of src/lsm-tree.ts
SpecTablesOld == InitTablesOld /\ [][NextTables]_vars

\* ------------------------------------------- flushWAL: sort and data blocks
\* flushWAL building the data blocks of one table from a memtable snapshot.
\* A record of the snapshot is its key (the keys are 1..MaxSnap in the order
\* of the tree), the lengths of the encoded key and value, and the prefix
\* extractSortKey16 gives for the key (the first 16 bytes of its hash).
PREFIX == 16
KeyLens == {1, 3000}
ValLens == {1, 5000}
PrefixBytes == {0, 200}
SortPrefixes ==
  {[i \in 1..PREFIX |-> IF i = 1 THEN x ELSE IF i = PREFIX THEN y ELSE 0] : x, y \in PrefixBytes}
Absent == [key |-> 0]
SnapRecs(k) ==
  {[key |-> k, klen |-> kl, vlen |-> vl, prefix |-> p] :
     kl \in KeyLens, vl \in ValLens, p \in SortPrefixes}

\* The snapshots: for each key, absent or a record of the key.
SnapInputs ==
  {f \in [1..MaxSnap -> UNION {SnapRecs(k) : k \in 1..MaxSnap} \cup {Absent}] :
     \A k \in 1..MaxSnap : f[k] = Absent \/ f[k].key = k}

\* tree.toArray(): the records present, in key order.
RECURSIVE toArray(_, _)
toArray(f, n) ==
  IF n = 0 THEN <<>>
  ELSE IF f[n] = Absent THEN toArray(f, n - 1) ELSE Append(toArray(f, n - 1), f[n])

\* cmp16: the difference of the first bytes that differ, 0 when none does.
RECURSIVE cmp16From(_, _, _)
cmp16From(a, b, i) ==
  IF i > PREFIX THEN 0
  ELSE IF a[i] - b[i] # 0 THEN a[i] - b[i] ELSE cmp16From(a, b, i + 1)
cmp16(a, b) == cmp16From(a, b, 1)

\* Array.prototype.sort with the comparator of flushWAL: a stable sort.  The
\* element at i goes behind the elements the comparator puts before it and
\* the earlier elements it compares equal to.
sortedPos(s, i) ==
  1 + Cardinality({j \in 1..Len(s) :
                     \/ cmp16(s[j].prefix, s[i].prefix) < 0
                     \/ (j < i /\ cmp16(s[j].prefix, s[i].prefix) = 0)})
sortIdentity(s) == [p \in 1..Len(s) |-> s[p]]
sortByPrefix(s) == [p \in 1..Len(s) |-> s[CHOOSE i \in 1..Len(s) : sortedPos(s, i) = p]]

\* pushRecord: the encoded length of a record.
recLen(r) == (2 + 4) + r.klen + r.vlen

\* flushBlock: the block sealed from the records ps of total size cs.
sealed(ps, cs) == [count |-> Len(ps), recs |-> ps, len |-> alignUp(cs, BLOCK)]
flushBlock(bs, ps, cs) == IF Len(ps) = 0 THEN bs ELSE Append(bs, sealed(ps, cs))

\* flushWAL is called with a snapshot.
EncStart(f) ==
  /\ epc = "idle"
  /\ snap' = toArray(f, MaxSnap)
  /\ epc' = "sort"
  /\ UNCHANGED <<subVars, obsVars, build, diskVars, walVars, sbmVars, manifest, tioVars, sorted, ei, parts,
                 curSize, blocks, lsmVars, erVars, ioVars, nOps, crashes, histVars>>

\* tree.toArray().sort(...)
EncSort ==
  /\ epc = "sort"
  /\ sorted' = sortByPrefix(snap)
  /\ ei' = 1
  /\ epc' = "push"
  /\ UNCHANGED <<subVars, obsVars, build, diskVars, walVars, sbmVars, manifest, tioVars, snap, parts,
                 curSize, blocks, lsmVars, erVars, ioVars, nOps, crashes, histVars>>

\* forEach: pushRecord of the next record.
EncPush ==
  /\ epc = "push" /\ ei <= Len(sorted)
  /\ LET r == sorted[ei]
         full == curSize + recLen(r) > BLOCK
     IN /\ blocks' = IF full THEN flushBlock(blocks, parts, curSize) ELSE blocks
        /\ parts' = IF full THEN <<r>> ELSE Append(parts, r)
        /\ curSize' = (IF full THEN 2 ELSE curSize) + recLen(r)
  /\ ei' = ei + 1
  /\ UNCHANGED <<subVars, obsVars, build, diskVars, walVars, sbmVars, manifest, tioVars, epc, snap, sorted,
                 lsmVars, erVars, ioVars, nOps, crashes, histVars>>

\* the flushBlock() call after the forEach
EncFinal ==
  /\ epc = "push" /\ ei > Len(sorted)
  /\ blocks' = flushBlock(blocks, parts, curSize)
  /\ parts' = <<>> /\ curSize' = 2
  /\ epc' = "done"
  /\ UNCHANGED <<subVars, obsVars, build, diskVars, walVars, sbmVars, manifest, tioVars, snap, sorted, ei,
                 lsmVars, erVars, ioVars, nOps, crashes, histVars>>

NextBlocks ==
  \/ (epc = "idle" /\ \E f \in SnapInputs : EncStart(f))
  \/ EncSort
  \/ EncPush
  \/ EncFinal

SpecBlocks == InitTables /\ [][NextBlocks]_vars

\* ------------------------------------------------------------- properties
\* No superblock checkpoint is suspended on I/O.
Quiescent == loopCk.stage = "idle" /\ cks = <<>> /\ pc # "dead"

\* The file was reopened and the loop has drained the operations recovery
\* enqueued; no client dispatched anything since.
ReplayDrained ==
  crashes > 0 /\ ~clientSinceBoot /\ q = <<>> /\ pc \in {"top", "yield"}

\* offset o lies inside the live region [h, t) of the ring
InLive(o, h, t) == IF h <= t THEN h <= o /\ o < t ELSE o >= h \/ o < t

\* a table listed in the manifest holds key k (with a value in vs)
InListedTable(k, vs) ==
  \E i \in 1..manifest : i <= Len(tables) /\ tables[i][k] \in vs

RECURSIVE stripOff(_)
stripOff(es) ==
  IF es = <<>> THEN <<>>
  ELSE <<encodeRecord(Head(es).lsn, Head(es))>> \o stripOff(Tail(es))

\* key -> value of the last set among the records rs (NoVal: none)
RECURSIVE lastSets(_)
lastSets(rs) ==
  IF rs = <<>> THEN EmptyTable
  ELSE LET r == rs[Len(rs)]
           m == lastSets(SubSeq(rs, 1, Len(rs) - 1)) IN
       IF r.op = "set" THEN [m EXCEPT ![r.key] = r.value] ELSE m

\* no PAD was ever written: the journal has not wrapped
NoWrapYet == \A o \in CellOffs : ~(journal[o].op = "pad" /\ journal[o].lsn > 0)

\* C1: after a crash, reopen and the drain of the replayed operations, every
\* key with an acknowledged set holds, in the memtable or in a table listed in
\* the manifest, the acknowledged value or the value of a later set of the key
\* (stated for runs without a torn superblock and without a journal wrap).
C1_AckedSetsSurviveCrash ==
  (ReplayDrained /\ tornSlots = {} /\ NoWrapYet) =>
    \A k \in Keys : acc[k] # {} => (memTable[k] \in acc[k] \/ InListedTable(k, acc[k]))

\* C2: every journaled set record that the superblock load() selects has
\* truncated (its LSN is checkpointed and its offset is outside [jHead, jTail))
\* has its key in a level-0 table listed in the manifest (stated for runs
\* without a torn superblock and without a journal wrap).
C2_TruncatedRecordsAreInTables ==
  (tornSlots = {} /\ NoWrapYet) =>
    \A r \in jrn :
      (r.lsn <= loadChosen.checkpointLSN
         /\ ~InLive(r.off, loadChosen.jHead, loadChosen.jTail))
        => InListedTable(r.key, Values)

\* C3: when the loop has finished a journaled batch, the superblock load()
\* selects has checkpointLSN >= the batch's highest LSN and jTail at the end of
\* the batch's last record.
C3_FinishedBatchIsCheckpointed ==
  (pc \in {"top", "yield"} /\ batchHi > 0)
    => (loadChosen.checkpointLSN >= batchHi /\ loadChosen.jTail = tail)

\* C4: while operations of a batch are applied and completed, either appendMany
\* and the superblock checkpoint have returned for that batch, or every
\* operation of the batch was enqueued by recovery replay.
C4_ApplyAfterAppendUnlessReplayed ==
  (pc = "applyWait" /\ ~batchJournaled)
    => \A i \in 1..Len(batch) : batch[i].src = "replay"

\* C5: in a run of appends and checkpoints (no crash), outside appendMany,
\* scan(head, used) yields exactly the records appended since the last
\* truncation, in order, wrapped or not.
C5_ScanYieldsLiveRecords ==
  (crashes = 0 /\ pc \notin {"padWrite", "recWrite"})
    => stripOff(scan(journal, head, getUsed(head, tail))) = liveRecs

\* C6: after recovery and the drain of the replayed operations, with nothing
\* else dispatched, lastLsn and tail are those recovery started with.
C6_ReplayNotReappended ==
  ReplayDrained => (lsn = bootLsn /\ tail = bootTail)

\* C7: after recovery from an untorn superblock and the drain of the replayed
\* operations (no flush in between), the memtable maps each key to the value
\* of its last set in the live journal region.
C7_ReplayRebuildsMemtable ==
  (ReplayDrained /\ ~flushedSinceBoot /\ tornSlots = {})
    => memTable = lastSets(bootLive)

\* C8: after any number of checkpoints run one after the other with no crash,
\* load() selects from the two slots the superblock the last checkpoint wrote
\* (the one the manager holds in memory).
C8_LoadReturnsLastCheckpoint ==
  (crashes = 0 /\ seqCk /\ Quiescent) => loadChosen = encodeSB(sb)

\* C9: load() never selects a slot that holds a partially written superblock.
C9_LoadNeverReturnsTornSlot ==
  loadActive(sbA, sbB) \notin tornSlots

\* C10: when no checkpoint is suspended on I/O, the active slot holds on disk
\* the superblock current() returns.
C10_ActiveSlotMatchesCurrent ==
  Quiescent => Slot(active) = encodeSB(sb)

\* the larger of the epochs the two slots hold
maxEpochOnDisk == IF sbA.epoch >= sbB.epoch THEN sbA.epoch ELSE sbB.epoch

\* C11: a superblock checkpoint that changes a slot (no crash in the step)
\* leaves in it an epoch strictly greater than every epoch on disk before the
\* write, so the two slots never hold one epoch with different contents.
C11_EpochStrictlyIncreases ==
  [][crashes' = crashes =>
       /\ (sbA' # sbA => sbA'.epoch > maxEpochOnDisk)
       /\ (sbB' # sbB => sbB'.epoch > maxEpochOnDisk)]_vars

\* no two records of rs carry the same LSN
DistinctLsns(rs) == \A i, j \in 1..Len(rs) : i # j => rs[i].lsn # rs[j].lsn

\* inside appendMany the records of the batch written so far carry lastLsn + i
BatchLsns ==
  pc = "recWrite" =>
    \A i \in 1..(bi - 1) : liveRecs[Len(liveRecs) - (bi - 1) + i].lsn = lsn + i

\* C12: the i-th record of a batch gets lastLsn + i, and after any appends,
\* checkpoints and restarts no two records appended and not truncated (the
\* live journal region) carry the same LSN.
C12_LiveLsnsDistinct == DistinctLsns(liveRecs) /\ BatchLsns

\* free < batchBytes + (wrap ? padAligned : 0) for the batch b appended at tail t
FreeTooSmall(h, t, b) ==
  (jEnd - jStart) - getUsed(h, t)
    < batchBytesOf(b) + (IF t + batchBytesOf(b) > jEnd THEN alignUp(minHdr, 8) ELSE 0)

\* C13: a batch taken for appendMany whose bytes (plus the PAD when it wraps)
\* exceed the free bytes of the ring fails with wal-full, and the failing call
\* leaves head, tail, lastLsn, the lsn -> offset map and every byte of the
\* journal as they were.
C13_WalFullLeavesWalUnchanged ==
  [][(pc = "top" /\ pc' \notin {"top", "yield"} /\ ~(recoverFlush > 0)) =>
       /\ FreeTooSmall(head, tail, takeUpTo(q, MAX_INFLIGHT)) => pc' = "dead"
       /\ pc' = "dead" => UNCHANGED <<head, tail, lsn, lsnToEnd, journal, padOverrun>>]_vars

\* appendMany failed with wal-full on the batch just taken
C13_Witness ==
  pc = "dead" /\ bi = 1 /\ batch # <<>> /\ batchHi = 0 /\ FreeTooSmall(head, tail, batch)

\* offset o lies in [jStart, jEnd)
InRegion(o) == jStart <= o /\ o < jEnd

\* C14: WAL head and tail lie in [jStart, jEnd) and the used bytes are
\* (tail - head) mod J; the jHead and jTail of both superblock slots on disk
\* lie in [jStart, jEnd) as well.
C14_HeadTailInRegion ==
  /\ InRegion(head) /\ InRegion(tail)
  /\ getUsed(head, tail) = (tail - head + (jEnd - jStart)) % (jEnd - jStart)
  /\ \A s \in {sbA, sbB} : InRegion(s.jHead) /\ InRegion(s.jTail)

\* the journal has wrapped: tail is before head, in memory and in the
\* superblock load() selects
C14_Witness ==
  /\ crashes = 0 /\ ~NoWrapYet /\ head > tail
  /\ loadChosen.jHead = head /\ loadChosen.jTail = tail

\* C15: outside appendMany, in a run without a crash, head = tail exactly when
\* no appended record is still un-truncated.
C15_EmptyIffHeadEqualsTail ==
  (crashes = 0 /\ pc \notin {"padWrite", "recWrite"}) => (head = tail <=> liveRecs = <<>>)

\* C16: when the loop's flush completes (the WAL checkpoint that follows
\* flushWAL returns), the newest manifest entry's table holds the keys frozen,
\* the live memtable is empty, head = tail, and the superblock load() selects
\* records that head.
C16_FlushEmptiesWal ==
  [][(pc = "fSbFsync" /\ pc' = "top") =>
       /\ tables'[manifest'] = freezeTable' /\ size(freezeTable') >= max_size
       /\ memTable' = EmptyTable
       /\ head' = tail'
       /\ loadChosen'.jHead = head']_vars

\* C17: every entry of the manifest page on disk references a table blob
\* that has been written.
C17_ManifestEntriesHaveBlobs ==
  \A i \in 1..diskManifest : i <= Len(tables) /\ tables[i] # NoTable

\* C18: through every sequence of flushes and reopens, every manifest entry
\* starts at or after manifestOff + BLOCK and ends within the file, the byte
\* ranges of distinct entries are pairwise disjoint, and the manifest never
\* holds more than CAP entries.
C18_TableRangesDisjoint ==
  /\ Len(entries) <= CAP
  /\ \A i \in 1..Len(entries) :
       /\ entries[i].metaOff >= manifestOff + BLOCK
       /\ entries[i].metaOff + entries[i].metaLen <= FILE_SIZE
  /\ \A i, j \in 1..Len(entries) :
       i # j => ~Overlap(entries[i].metaOff, entries[i].metaLen,
                         entries[j].metaOff, entries[j].metaLen)

\* aggHeads(0) reads table i back: its blob was written and no later write
\* touched it.
Readable(i) == i <= Len(tables) /\ tables[i] # NoTable /\ i \notin clobbered

\* C19: with CAP entries in the manifest the next admission fails with
\* manifest-full and changes nothing of the table layer, and the CAP tables
\* admitted before are readable then, and still after a reopen.
C19_ManifestFullKeepsTables ==
  [][/\ (pc = "flSize" /\ manifest = CAP /\ crashes' = crashes /\ pc' # "flSize") =>
          /\ pc' = "dead"
          /\ UNCHANGED <<manifest, entries, tableTail, diskManifest, tables, clobbered, mfWrites>>
          /\ \A i \in 1..CAP : Readable(i)
     /\ (pc = "dead" /\ manifest = CAP /\ crashes' > crashes) =>
          /\ manifest' = CAP /\ entries' = entries
          /\ \A i \in 1..CAP : Readable(i)']_vars

\* C20: once the blob of a listed table is written, no later write (journal
\* record or PAD, superblock slot, manifest page, manifest entry, the blob of
\* a later table) touches a byte of its range.
C20_SealedTablesNeverMutate ==
  /\ clobbered = {}
  /\ \A i \in 1..Len(entries) :
       /\ \A o \in CellOffs : ~Overlap(o, 24, entries[i].metaOff, entries[i].metaLen)
       /\ ~Overlap(SB_A_OFF, BLOCK, entries[i].metaOff, entries[i].metaLen)
       /\ ~Overlap(SB_B_OFF, BLOCK, entries[i].metaOff, entries[i].metaLen)

\* The records of a table read in block order.
RECURSIVE readBlocks(_)
readBlocks(bs) ==
  IF bs = <<>> THEN <<>> ELSE readBlocks(SubSeq(bs, 1, Len(bs) - 1)) \o bs[Len(bs)].recs

\* C21: the records of the table built from a snapshot, read in block order,
\* are sorted non-decreasing by prefix under cmp16, hold every key of the
\* snapshot exactly once, and keep the key order among equal prefixes.
C21_TableSortedStable ==
  epc = "done" =>
    LET rs == readBlocks(blocks) IN
    /\ \A i \in 1..(Len(rs) - 1) : cmp16(rs[i].prefix, rs[i + 1].prefix) <= 0
    /\ Len(rs) = Len(snap)
    /\ \A i \in 1..Len(snap) : Cardinality({j \in 1..Len(rs) : rs[j] = snap[i]}) = 1
    /\ \A i, j \in 1..Len(rs) :
         (i < j /\ cmp16(rs[i].prefix, rs[j].prefix) = 0) => rs[i].key < rs[j].key
C21_Witness ==
  /\ epc = "done" /\ Len(snap) = MaxSnap /\ Len(blocks) >= 2
  /\ cmp16(snap[1].prefix, snap[2].prefix) > 0
  /\ cmp16(snap[1].prefix, snap[3].prefix) = 0
  /\ sorted = <<snap[2], snap[1], snap[3]>>

RECURSIVE sumLens(_)
sumLens(rs) == IF rs = <<>> THEN 0 ELSE sumLens(SubSeq(rs, 1, Len(rs) - 1)) + recLen(rs[Len(rs)])

\* C22: every data block a flush seals is exactly BLOCK bytes, holds count
\* whole records, and its 2 byte header plus the encoded lengths of its
\* records is at most BLOCK.
C22_BlocksExactlyB ==
  \A i \in 1..Len(blocks) :
    /\ blocks[i].len = BLOCK
    /\ blocks[i].count = Len(blocks[i].recs)
    /\ 2 + sumLens(blocks[i].recs) <= BLOCK

\* The value of the most recent set of the key of done[n] applied before it
\* and after the memtable flush before it; NoVal (the empty string) if none.
lastSetBefore(n) ==
  LET ms == {m \in 1..(n - 1) : /\ done[m].op = "set" /\ done[m].key = done[n].key
                                /\ done[m].fl = done[n].fl}
  IN IF ms = {} THEN NoVal ELSE done[CHOOSE m \in ms : \A x \in ms : x <= m].value
GetsAnswered ==
  \A n \in 1..Len(done) : done[n].op = "get" => done[n].result = lastSetBefore(n)

\* C23: a get completes with the value of the most recent set of its key
\* applied before it since the last memtable flush, with the empty string when
\* there is none, and applying a get leaves the memtable as it was (the flush
\* branch that may follow it freezes that same memtable).
C23_GetReturnsLatestSet ==
  [][/\ GetsAnswered'
     /\ (Len(done') > Len(done) /\ done'[Len(done')].op = "get") =>
          IF pc' = "flSize" THEN freezeTable' = memTable ELSE memTable' = memTable]_vars
C23_Witness ==
  \E n \in 1..Len(done) :
    /\ done[n].op = "get" /\ done[n].result = 2
    /\ \E m \in 1..(n - 1) : done[m].op = "set" /\ done[m].key = done[n].key /\ done[m].value = 1

\* C24: when the completion of a check operation is invoked, the WAL
\* checkpoint it requested is over: it is neither waiting as a callback nor
\* suspended in its superblock write, head stands behind the last record, and
\* the superblock load() selects carries that head.
C24_CheckCompletesAfterCheckpoint ==
  [][(Len(done') > Len(done) /\ done'[Len(done')].op = "check") =>
       /\ \A i \in 1..Len(immQ') : immQ'[i] # "ckpt"
       /\ cks' = <<>>
       /\ head' = tail'
       /\ loadChosen'.jHead = head']_vars

\* The operation dispatched n-th was applied and its completion invoked.
Completed(n) == \E m \in 1..Len(done) : done[m].id = n
CompletedOnce == \A m1, m2 \in 1..Len(done) : done[m1].id = done[m2].id => m1 = m2

\* C25: in a run where the loop does not die of an error, every operation
\* dispatched, whatever its opcode, is eventually applied and completed, and
\* none is completed twice.
C25_EveryOpCompletes ==
  \/ <>(pc = "dead")
  \/ /\ []CompletedOnce
     /\ \A n \in 1..(MaxOps + 2) : (nDisp >= n) ~> Completed(n)

\* C26: an iteration of the loop takes at most MAX_INFLIGHT operations, and
\* the operations are journaled, and applied and completed, in the order of
\* their dispatch, within a batch and from one batch to the next.
C26_FifoOrder ==
  /\ Len(batch) <= MAX_INFLIGHT
  /\ \A m \in 1..Len(done) : done[m].id = m
  /\ \A i \in 1..(Len(jIds) - 1) : jIds[i + 1] = jIds[i] + 1
  /\ \A i \in 1..(Len(qIds) - 1) : qIds[i + 1] = qIds[i] + 1
C26_Witness ==
  /\ crashes = 0 /\ Len(done) = MaxOps /\ jIds = <<1, 2, 3>>
  /\ done[1].op = "set" /\ done[2].op = "check" /\ done[3].op = "get"

\* C27: load() throws only when neither slot is valid; with exactly one
\* valid slot it returns that slot and makes it the active one; and a
\* superblock write that finds exactly one valid slot goes to the other one.
C27_LoadToleratesOneBadSlot ==
  [][/\ crashes' > crashes =>
          /\ pc' = "dead" <=> (~decodeSBValid(sbA') /\ ~decodeSBValid(sbB'))
          /\ (decodeSBValid(sbA') /\ ~decodeSBValid(sbB')) => (active' = "A" /\ sb' = sbA')
          /\ (decodeSBValid(sbB') /\ ~decodeSBValid(sbA')) => (active' = "B" /\ sb' = sbB')
     /\ (crashes' = crashes /\ decodeSBValid(sbA) /\ ~decodeSBValid(sbB)) => sbA' = sbA
     /\ (crashes' = crashes /\ decodeSBValid(sbB) /\ ~decodeSBValid(sbA)) => sbB' = sbB]_vars
C27_Witness ==
  /\ crashes = 1 /\ decodeSBValid(sbA) /\ ~decodeSBValid(sbB)
  /\ active = "A" /\ sb = sbA /\ loopCk.stage = "write" /\ loopCk.target = "B"

\* The phase of runFor a position of the loop belongs to.
Phase(p) ==
  IF p \in {"padWrite", "recWrite", "appendFsync"} THEN "append"
  ELSE IF p \in {"bSbWrite", "bSbFsync"} THEN "checkpoint"
  ELSE IF p = "applyWait" THEN "apply"
  ELSE IF p \in {"flSize", "flEntry", "flBlob", "fSbWrite", "fSbFsync"} THEN "flush"
  ELSE IF p \in {"dead", "hung"} THEN "stopped"
  ELSE "between"
PhaseOrder ==
  {<<"between", "append">>, <<"between", "checkpoint">>, <<"append", "checkpoint">>,
   <<"checkpoint", "apply">>, <<"apply", "flush">>, <<"apply", "between">>,
   <<"flush", "between">>}

\* C28: the phases of a batch follow in the order append, checkpoint, apply,
\* flush and truncation; while operations of the batch are still to be
\* applied the WAL head does not change and no superblock slot is written;
\* and a batch is taken only when no checkpoint or manifest write of an
\* earlier batch is queued or in flight.
C28_PhaseOrder ==
  [][crashes' = crashes =>
       /\ Phase(pc') = Phase(pc) \/ Phase(pc') = "stopped" \/ <<Phase(pc), Phase(pc')>> \in PhaseOrder
       /\ (pc = "applyWait" /\ Phase(pc') # "stopped") =>
            (head' = head /\ sbA' = sbA /\ sbB' = sbB)
       /\ (batch = <<>> /\ batch' # <<>>) =>
            (cks = <<>> /\ loopCk.stage = "idle" /\ mfWrites = {}
             /\ \A i \in 1..Len(immQ) : immQ[i] # "ckpt")]_vars

\* C29: a WAL.checkpoint of a check callback begins only when no superblock
\* checkpoint is in flight and the loop is not suspended in appendMany, in its
\* own checkpoint or in a table flush; and the loop begins a superblock
\* checkpoint only when no checkpoint of a callback is in flight.
C29_SingleMutator ==
  [][crashes' = crashes =>
       /\ Len(cks') > Len(cks) =>
            /\ cks = <<>> /\ loopCk.stage = "idle"
            /\ Phase(pc) \notin {"append", "checkpoint", "flush"}
       /\ (loopCk.stage = "idle" /\ loopCk'.stage = "write") => cks = <<>>]_vars

\* A step in which WAL.checkpoint(getLastLSN(), sbManager) is called: by the
\* callback of a check operation or by the loop after flushWAL.
WalCkptCall ==
  /\ crashes' = crashes
  /\ \/ pc \notin {"top", "dead"} /\ immQ # <<>> /\ Head(immQ) = "ckpt" /\ immQ' = Tail(immQ)
     \/ pc = "flBlob" /\ pc' # "flBlob"

\* C30: WAL.checkpoint(lsn) with lsn in the map sets head to the offset of
\* lsn, removes exactly the entries with LSN <= lsn, keeps those with LSN >
\* lsn, and starts a superblock with checkpointLSN = lsn, jHead = the new
\* head and jTail = tail; with lsn not in the map it fails, changing nothing.
C30_WalCheckpoint ==
  [][WalCkptCall =>
       IF lsn \in DOMAIN lsnToEnd
       THEN /\ head' = lsnToEnd[lsn]
            /\ DOMAIN lsnToEnd' = {k \in DOMAIN lsnToEnd : k > lsn}
            /\ \A k \in DOMAIN lsnToEnd' : lsnToEnd'[k] = lsnToEnd[k]
            /\ LET c == IF Len(cks') > Len(cks) THEN cks'[Len(cks')] ELSE loopCk' IN
               /\ c.stage = "write"
               /\ c.next.checkpointLSN = lsn /\ c.next.jHead = head' /\ c.next.jTail = tail
       ELSE /\ pc' = "dead"
            /\ UNCHANGED <<head, tail, lsn, lsnToEnd, cks, loopCk, sbA, sbB, active, sb>>]_vars

\* The journal cell that holds the live record r.
cellOf(r) == [lsn |-> r.lsn, op |-> r.op, key |-> r.key, value |-> r.value]

\* C31: every record still live in the journal has its LSN in the lsn->offset
\* map, mapped to the offset just past the record (jStart for jEnd); so a
\* checkpoint at the last LSN is possible whenever the journal is not empty.
C31_MapCoversLiveRecords ==
  pc # "dead" =>
    /\ \A i \in 1..Len(liveRecs) :
         /\ liveRecs[i].lsn \in DOMAIN lsnToEnd
         /\ \E o \in CellOffs :
              /\ journal[o] = cellOf(liveRecs[i])
              /\ lsnToEnd[liveRecs[i].lsn] = normEnd(o + RecLen(liveRecs[i]))
    /\ (liveRecs # <<>> /\ Phase(pc) # "append") => lsn \in DOMAIN lsnToEnd

\* The loop begins its per-batch superblock checkpoint.
LoopCkBegin == crashes' = crashes /\ pc' = "bSbWrite" /\ pc # "bSbWrite"

\* C32: while the file is open the WAL head changes only in a step of
\* WAL.checkpoint, and the superblock the per-batch checkpoint builds has the
\* jHead of the previous superblock.
C32_HeadChangesOnlyInCheckpoint ==
  [][/\ (crashes' = crashes /\ head' # head) => WalCkptCall
     /\ LoopCkBegin => (loopCk'.next.jHead = head /\ loopCk'.next.jHead = sb.jHead)]_vars

\* ------------------------------------- WAL_Manager with records of two lengths
\* WAL_Manager driven alone on a formatted file: appendMany with batches of
\* 24- and 32-byte records, and checkpoint(getLastLSN(), sbManager) between
\* two calls.
MaxAppends == 5
WalOps ==
  {[op |-> "set", key |-> k, value |-> 1, src |-> "client"] : k \in {"a", LongKey}}
WalBatches == {<<o>> : o \in WalOps} \cup {<<o1, o2>> : o1, o2 \in WalOps}
walFrame ==
  <<treeVars, moreVars, build, journal, padOverrun, diskManifest, tables, manifest, tioVars, encVars, lsmVars,
    q, pc, immQ, ioVars, nOps, crashes, histVars, obsVars>>

\* appendMany(items) up to its first await: the records are encoded, the
\* free-space check is made.
WalAppendMany(b) ==
  /\ wpc = "idle" /\ nApp < MaxAppends
  /\ nApp' = nApp + 1
  /\ batch' = b /\ bi' = 1
  /\ wrote' = {} /\ wLive0' = wLive
  /\ wpc' = IF walFull(head, tail, b) THEN "full"
            ELSE IF needsWrap(tail, b) THEN "pad" ELSE "rec"
  /\ off' = tail
  /\ UNCHANGED <<walFrame, walVars, sbA, sbB, sbmVars, wLive, nPad>>

\* await this.file.write(this.tail, pad); this.tail = this.jStart
WalPadWritten ==
  /\ wpc = "pad"
  /\ wrote' = wrote \cup {[off |-> tail, len |-> padBytes, lsn |-> encodePad(lsn).lsn, op |-> "pad"]}
  /\ tail' = jStart
  /\ off' = jStart
  /\ nPad' = nPad + 1
  /\ wpc' = "rec"
  /\ UNCHANGED <<walFrame, head, lsn, lsnToEnd, sbA, sbB, sbmVars, batch, bi, nApp, wLive, wLive0>>

\* await this.file.write(off, r.buf), the map entry; after the last record
\* tail and lsn.
WalRecWritten ==
  /\ wpc = "rec"
  /\ LET o == batch[bi]
         l == lsn + bi
         e == off + RecLen(o)
         last == bi = Len(batch) IN
     /\ wrote' = wrote \cup {[off |-> off, len |-> RecLen(o), lsn |-> l, op |-> o.op]}
     /\ wLive' = Append(wLive, [lsn |-> l, off |-> off, len |-> RecLen(o)])
     /\ lsnToEnd' = (l :> normEnd(e)) @@ lsnToEnd
     /\ off' = e
     /\ tail' = IF last THEN normEnd(e) ELSE tail
     /\ lsn' = IF last THEN lsn + Len(batch) ELSE lsn
     /\ bi' = IF last THEN bi ELSE bi + 1
     /\ wpc' = IF last THEN "fsync" ELSE "rec"
  /\ UNCHANGED <<walFrame, head, sbA, sbB, sbmVars, batch, nApp, nPad, wLive0>>

\* await this.file.fsync(); return next
WalFsyncDone ==
  /\ wpc = "fsync"
  /\ wpc' = "idle"
  /\ UNCHANGED <<walFrame, walVars, sbA, sbB, sbmVars, batch, bi, off, nApp, nPad, wrote, wLive, wLive0>>

\* checkpoint(getLastLSN(), sbManager), awaited.
WalCheckpoint ==
  /\ wpc = "idle" /\ lsn \in DOMAIN lsnToEnd
  /\ LET offset == lsnToEnd[lsn]
         next == sbNext(sb, lsn, offset, tail) IN
     /\ head' = offset
     /\ lsnToEnd' = ckptKeep(lsnToEnd, offset)
     /\ sbA' = IF targetSlot(active) = "A" THEN encodeSB(next) ELSE sbA
     /\ sbB' = IF targetSlot(active) = "B" THEN encodeSB(next) ELSE sbB
     /\ active' = flip(active)
     /\ sb' = next
     /\ wLive' = SelectSeq(wLive, LAMBDA r : r.lsn > lsn)
  /\ UNCHANGED <<walFrame, tail, lsn, batch, bi, off, wpc, nApp, nPad, wrote, wLive0>>

NextWal ==
  \/ \E b \in WalBatches : WalAppendMany(b)
  \/ WalPadWritten
  \/ WalRecWritten
  \/ WalFsyncDone
  \/ WalCheckpoint

SpecWal == InitTables /\ [][NextWal]_vars

\* The writes of the appendMany call: the PADs and the records.
padsOf(ws) == {w \in ws : w.op = "pad"}
recsOf(ws) == {w \in ws : w.op # "pad"}
\* The bytes of the records of ws with an LSN below l.
RECURSIVE lensBelow(_, _)
lensBelow(ws, l) ==
  IF \A w \in ws : w.lsn >= l THEN 0
  ELSE LET w == CHOOSE x \in ws : x.lsn < l /\ \A y \in ws : y.lsn < l => y.lsn <= x.lsn
       IN w.len + lensBelow(ws, w.lsn)

\* C33: a batch that does not fit between tail and jEnd is written after one
\* PAD at tail, which carries the last used LSN and takes none, contiguously
\* from jStart; a batch that fits is written at tail without a PAD; a record
\* ending exactly at jEnd has post-offset jStart, and so has tail after it.
C33_WrapWritesPadThenBatch ==
  /\ wpc = "pad" => (tail + batchBytesOf(batch) > jEnd /\ wrote = {})
  /\ wpc \in {"rec", "fsync"} =>
       LET ps == padsOf(wrote)
           rs == recsOf(wrote)
           first == IF wpc = "fsync" THEN lsn - Len(batch) + 1 ELSE lsn + 1
           start == IF ps = {} THEN (IF wpc = "fsync" THEN off - batchBytesOf(batch)
                                     ELSE tail) ELSE jStart
       IN /\ Cardinality(ps) <= 1
          /\ \A p \in ps : p.lsn = first - 1 /\ p.off + batchBytesOf(batch) > jEnd
          /\ ps = {} => start + batchBytesOf(batch) <= jEnd
          /\ \A r \in rs :
               /\ r.lsn >= first
               /\ r.off = start + lensBelow(rs, r.lsn)
               /\ r.off + r.len <= jEnd
               /\ lsnToEnd[r.lsn] = IF r.off + r.len = jEnd THEN jStart ELSE r.off + r.len
          /\ wpc = "fsync" =>
               /\ Cardinality(rs) = Len(batch)
               /\ tail = IF off = jEnd THEN jStart ELSE off
C33_Witness ==
  /\ wpc = "fsync" /\ nPad > 0 /\ off = jEnd /\ tail = jStart
  /\ \E r \in wrote : r.off + r.len = jEnd /\ lsnToEnd[r.lsn] = jStart

\* Two byte ranges [off, off + len) share a byte.
Meets(x, y) == x.off < y.off + y.len /\ y.off < x.off + x.len

\* C34: no write of an accepted appendMany call touches a record that was
\* live when the call began, and when the call has written its batch the
\* live records are the old ones followed by the batch, each intact.
C34_AppendKeepsLiveRecords ==
  /\ \A w \in wrote : \A i \in 1..Len(wLive0) : ~Meets(w, wLive0[i])
  /\ wpc = "fsync" =>
       /\ Len(wLive) = Len(wLive0) + Len(batch)
       /\ SubSeq(wLive, 1, Len(wLive0)) = wLive0
       /\ \A i, j \in 1..Len(wLive) : i < j => ~Meets(wLive[i], wLive[j])

\* C35: every write of appendMany, the PAD included, lies inside the journal
\* region [jStart, jEnd) and so touches no superblock slot, manifest page or
\* table.
C35_JournalWritesInRegion ==
  \A w \in wrote :
    /\ jStart <= w.off /\ w.off + w.len <= jEnd
    /\ ~Meets(w, [off |-> SB_A_OFF, len |-> BLOCK])
    /\ ~Meets(w, [off |-> SB_B_OFF, len |-> BLOCK])
    /\ ~Meets(w, [off |-> MANIFEST_OFF, len |-> FILE_SIZE - MANIFEST_OFF])

\* ------------------------------------------------- LSM.freeze and the BTree
\* The LSM of part_003 with its memTable and freezeTable as BTree objects
\* that share nodes: put, freeze, memTable.clear(), and calls of set, clear
\* and delete on the frozen snapshot.
freeNode(ns) == CHOOSE i \in 0..(MaxNodes - 1) : ns[i] = NoNode /\ \A j \in 0..(i - 1) : ns[j] # NoNode
hasFree(ns) == \E i \in 0..(MaxNodes - 1) : ns[i] = NoNode

\* BTree.clone: the root is marked shared and the new tree points at it.
cloneKeepsOwner(ns, r) == ns
clone(ns, r) == [ns EXCEPT ![r].isShared = TRUE]

\* BTree.set: a shared root is copied first (BNode.clone), then the pair is
\* stored in the root of this tree.  The result is [nodes, root].
treeSet(ns, r, k, v) ==
  IF ns[r].isShared
  THEN LET n == freeNode(ns) IN
       [nodes |-> [ns EXCEPT ![n] = [kv |-> [ns[r].kv EXCEPT ![k] = v], isShared |-> FALSE]],
        root |-> n]
  ELSE [nodes |-> [ns EXCEPT ![r].kv[k] = v], root |-> r]

\* LSM.put: this.memTable.set(key, value)
TreePut(k, v) ==
  /\ nTree < MaxTreeOps /\ nTree' = nTree + 1
  /\ nodes[mRoot].isShared => hasFree(nodes)
  /\ LET r == treeSet(nodes, mRoot, k, v) IN nodes' = r.nodes /\ mRoot' = r.root
  /\ lastCall' = "put"
  /\ UNCHANGED <<engineVars, wVars, moreVars, fRoot, fFrozen, snapAt>>

\* LSM.freeze: this.freezeTable = this.memTable.clone(); this.freezeTable.freeze()
TreeFreeze ==
  /\ nTree < MaxTreeOps /\ nTree' = nTree + 1
  /\ nodes' = clone(nodes, mRoot)
  /\ fRoot' = mRoot
  /\ fFrozen' = TRUE
  /\ snapAt' = nodes[mRoot].kv
  /\ lastCall' = "freeze"
  /\ UNCHANGED <<engineVars, wVars, moreVars, mRoot>>

\* this.tree.memTable.clear(): _root = EmptyLeaf
TreeClear ==
  /\ nTree < MaxTreeOps /\ nTree' = nTree + 1
  /\ mRoot' = EmptyLeaf
  /\ lastCall' = "clear"
  /\ UNCHANGED <<engineVars, wVars, moreVars, nodes, fRoot, fFrozen, snapAt>>

\* A call of set, clear or delete (editRange) on the snapshot: the method
\* installed by BTree.freeze throws; the method of the class would run.
TreeModifySnapshot(m, k, v) ==
  /\ nTree < MaxTreeOps /\ nTree' = nTree + 1
  /\ fRoot # NoTree
  /\ IF fFrozen
     THEN lastCall' = "threw" /\ UNCHANGED <<nodes, fRoot>>
     ELSE /\ lastCall' = "modified"
          /\ nodes[fRoot].isShared /\ m # "clear" => hasFree(nodes)
          /\ IF m = "clear" THEN fRoot' = EmptyLeaf /\ nodes' = nodes
             ELSE LET r == treeSet(nodes, fRoot, k, IF m = "set" THEN v ELSE 0)
                  IN nodes' = r.nodes /\ fRoot' = r.root
  /\ UNCHANGED <<engineVars, wVars, moreVars, mRoot, fFrozen, snapAt>>

NextTree ==
  \/ \E k \in {"a", "b"} : \E v \in Values : TreePut(k, v)
  \/ TreeFreeze
  \/ TreeClear
  \/ \E m \in {"set", "clear", "delete"} : \E k \in {"a", "b"} : \E v \in Values :
       TreeModifySnapshot(m, k, v)

SpecTree == InitTables /\ [][NextTree]_vars

FullEntries ==
  [i \in 1..CAP |->
     newEntry("src", manifestOff + BLOCK + (i - 1) * alignUp(tableSize("src", OldTable), BLOCK),
              tableSize("src", OldTable))]
FullTables == [i \in 1..CAP |-> OldTable]
\* A file whose table area is used up to its last block by one table (a file
\* written by a driver built with a larger memtable limit, LSM(max)).
NearFullEntry == newEntry("src", manifestOff + BLOCK, FILE_SIZE - (manifestOff + BLOCK) - BLOCK)
FullFiles ==
  \/ InitFile(FALSE, OldSbA, OldSbB, OldJournal, FullEntries, FullTables)
  \/ InitFile(FALSE, OldSbA, OldSbB, OldJournal, <<NearFullEntry>>, <<OldTable>>)
InitFull == build = "src" /\ (InitFiles \/ FullFiles)
SpecFull == InitFull /\ [][Next]_vars

\* The step in which requestTable / addEntry throws.
FlushFails == crashes' = crashes /\ pc = "flSize" /\ pc' = "dead"
\* The live records of the journal hold the pairs of tree t.
InJournal(t, L) ==
  \A k \in Keys : t[k] # NoVal =>
    \E i \in 1..Len(L) : L[i].op = "set" /\ L[i].key = k /\ L[i].value = t[k]

MaxTime == 3
MaxNow == 4
Times == 1..MaxTime
MAX_RETRIES == 8

\* now, from a reading t of the time source up to the next Atomics.wait or the
\* return: the loop test, and the loop body's assignment before the wait.
nowStep(t) ==
  /\ newest' = t
  /\ lastCurrent' = t
  /\ IF lastCurrent >= t
     THEN /\ cpc' = "wait"
          /\ UNCHANGED <<nowResult, lastRet, prevRet>>
     ELSE /\ cpc' = "idle"
          /\ nowResult' = "returned" /\ lastRet' = t /\ prevRet' = lastRet

\* get now(): the first reading of the time source.
ClockNow(t) ==
  /\ cpc = "idle" /\ nNow < MaxNow
  /\ nNow' = nNow + 1
  /\ retries' = 0
  /\ nowStep(t)
  /\ UNCHANGED <<engineVars, wVars, treeVars, rdVars>>

\* Atomics.wait returned: the next reading, retries++, the throw at 8 retries,
\* the loop test.
ClockRetry(t) ==
  /\ cpc = "wait"
  /\ retries' = retries + 1
  /\ IF retries + 1 = MAX_RETRIES
     THEN /\ cpc' = "idle" /\ nowResult' = "threw" /\ newest' = t
          /\ UNCHANGED <<lastCurrent, lastRet, prevRet>>
     ELSE nowStep(t)
  /\ UNCHANGED <<engineVars, wVars, treeVars, rdVars, nNow>>

NextClock ==
  \/ \E t \in Times : ClockNow(t)
  \/ \E t \in Times : ClockRetry(t)

SpecClock == InitTables /\ [][NextClock]_vars

\* C40: successive reads of Clock.now return strictly increasing values,
\* whatever the time source does (stall, step backwards); a call returns only
\* a reading past the value returned last.
C40_NowStrictlyIncreasing ==
  (nowResult = "returned" /\ cpc = "idle") => lastRet > prevRet

\* The step in which runFor returns: the budget test at the top of the loop.
RunForReturn == pc = "top" /\ pc' = "yield"
\* Operation n is no longer in the queue.
Taken(n) == \A i \in 1..Len(qIds) : qIds[i] # n
Journaled(n) == \E i \in 1..Len(jIds) : jIds[i] = n

\* C38: with every I/O completing and the budget running out, runFor
\* returns (or ends with an error); when it returns, every operation taken
\* from the queue has been journaled, applied and completed, and the queue
\* holds the operations not yet taken in dispatch order.
C38_RunForReturns ==
  /\ (pc # "yield") ~> (pc = "yield" \/ pc = "dead")
  /\ [][RunForReturn =>
          /\ \A n \in 1..nDisp : Taken(n) => (Journaled(n) /\ Completed(n))
          /\ \A i \in 1..(Len(qIds) - 1) : qIds[i + 1] = qIds[i] + 1
          /\ q' = q /\ qIds' = qIds]_vars

\* ---------------------------------------- flushWAL's blob and TableReader
MaxNulls == 2
U16 == 65536

\* blocks.reduce((s, b) => s + b.length, 0) over the blocks before block i.
RECURSIVE blockOff(_, _)
blockOff(bs, i) == IF i <= 1 THEN 0 ELSE blockOff(bs, i - 1) + bs[i - 1].len
\* The position of record j in its block: after the count and the records before it.
RECURSIVE recPos(_, _)
recPos(rs, j) == IF j <= 1 THEN 2 ELSE recPos(rs, j - 1) + recLen(rs[j - 1])
\* flushWAL's index list: one entry per block, [klen u16, off u64, len u32, key].
\* The u32 and u64 fields are wider than any length or offset of a 1 GiB file
\* and store it unchanged; the u16 fields store the length modulo 65536.
indexOf(bs) ==
  [i \in 1..Len(bs) |->
     [firstKey |-> bs[i].recs[1].key, klen |-> bs[i].recs[1].klen % U16,
      off |-> blockOff(bs, i), len |-> bs[i].len]]
RECURSIVE indexRawLen(_)
indexRawLen(ix) ==
  IF ix = <<>> THEN 0
  ELSE indexRawLen(SubSeq(ix, 1, Len(ix) - 1)) + (2 + 8 + 4) + ix[Len(ix)].klen
RECURSIVE countSum(_)
countSum(bs) == IF bs = <<>> THEN 0 ELSE countSum(Tail(bs)) + Head(bs).count

\* flushWAL from the index on: the blob [meta block][index][blocks] written at
\* metaOff mo, with the fields encodeTableMeta stores (u64, u32, u32).
tableBlob(mo, bs) ==
  LET ix == indexOf(bs) IN
  [metaOff |-> mo,
   meta |-> [indexOff |-> mo + BLOCK, indexLen |-> indexRawLen(ix),
             entryCount |-> countSum(bs)],
   indexAt |-> mo + BLOCK,
   index |-> ix,
   dataAt |-> mo + BLOCK + alignUp(indexRawLen(ix), 8),
   blocks |-> bs]

\* decodeIndex over the first n bytes of the index region, from entry j at
\* byte o: stops at a header or a key that does not fit.
RECURSIVE decodeIndex(_, _, _, _)
decodeIndex(ix, j, o, n) ==
  IF j > Len(ix) \/ o + (2 + 8 + 4) > n THEN <<>>
  ELSE IF o + (2 + 8 + 4) + ix[j].klen > n THEN <<>>
  ELSE <<ix[j]>> \o decodeIndex(ix, j + 1, o + (2 + 8 + 4) + ix[j].klen, n)

\* decodeTableMeta of the block read at offset o: the meta block of the blob
\* when it was written there, else zeros.
metaAt(im, o) ==
  IF im # NoImg /\ o = im.metaOff THEN im.meta
  ELSE [indexOff |-> 0, indexLen |-> 0, entryCount |-> 0]

\* readEntryHead for the manifest entry e.
readEntryHead(im, e) ==
  LET table == metaAt(im, e.metaOff)
      idxRel == IF im # NoImg /\ table.indexOff = im.indexAt
                  THEN decodeIndex(im.index, 1, 0, table.indexLen) ELSE <<>>
      dataStart == table.indexOff + alignUp(table.indexLen, 8) IN
  [index |-> [i \in 1..Len(idxRel) |->
                [firstKey |-> idxRel[i].firstKey, off |-> dataStart + idxRel[i].off,
                 len |-> idxRel[i].len]],
   entryCount |-> table.entryCount]

\* file.read(off, len): the block flushWAL wrote at that offset, if any.
blockAt(im, o, l) ==
  LET hit == {j \in 1..Len(im.blocks) : im.dataAt + blockOff(im.blocks, j) = o /\ im.blocks[j].len = l} IN
  IF hit = {} THEN [count |-> 0, recs |-> <<>>, len |-> l]
  ELSE im.blocks[CHOOSE j \in hit : TRUE]

\* The record header found at byte p of block b: klen u16, vlen u32.
NoRec == [key |-> 0, klen |-> 0, vlen |-> 0]
recAt(b, p) ==
  LET hit == {j \in 1..Len(b.recs) : recPos(b.recs, j) = p} IN
  IF hit = {} THEN NoRec
  ELSE LET r == b.recs[CHOOSE j \in hit : TRUE] IN
       [key |-> r.key, klen |-> r.klen % U16, vlen |-> r.vlen]

\* TableReader.next from the reader state (i, blk, pos, iter): the state it
\* leaves and what it returns (Null at the end of the index).
Null == [key |-> -1, klen |-> 0, vlen |-> 0]
RECURSIVE next(_, _, _, _, _, _)
next(im, h, i, blk, pos, iter) ==
  IF blk.len = 0
    THEN IF i > Len(h.index)
           THEN [i |-> i, blk |-> blk, pos |-> pos, iter |-> iter, res |-> Null]
           ELSE next(im, h, i + 1, blockAt(im, h.index[i].off, h.index[i].len), 2, 0)
  ELSE IF iter >= blk.count THEN next(im, h, i, NoBlock, pos, iter)
  ELSE LET r == recAt(blk, pos) IN
       [i |-> i, blk |-> blk, pos |-> pos + 2 + 4 + r.klen + r.vlen, iter |-> iter + 1, res |-> r]

\* The pair a record of the snapshot is on disk.
pairOf(r) == [key |-> r.key, klen |-> r.klen, vlen |-> r.vlen]

rdFrame == <<engineVars, wVars, treeVars, clkVars>>

\* flushWAL after the data blocks: index, meta block, the blob written at the
\* first table offset of a fresh file.
RtWrite ==
  /\ epc = "done" /\ blocks # <<>> /\ img = NoImg
  /\ img' = tableBlob(manifestOff + BLOCK, blocks)
  /\ rWant' = sorted
  /\ UNCHANGED <<rdFrame, rpc, rHead, rI, rBlock, rPos, rIter, rOut, rNulls>>

\* readEntryHead(0) and new TableReader(file, head).
RtOpen ==
  /\ rpc = "closed" /\ img # NoImg
  /\ rHead' = readEntryHead(img, [metaOff |-> img.metaOff])
  /\ rpc' = "open"
  /\ rI' = 1 /\ rBlock' = NoBlock /\ rPos' = 0 /\ rIter' = 0
  /\ UNCHANGED <<rdFrame, img, rWant, rOut, rNulls>>

\* TableReader.next()
RtNext ==
  /\ rpc = "open" /\ rNulls < MaxNulls
  /\ LET n == next(img, rHead, rI, rBlock, rPos, rIter) IN
     /\ rI' = n.i /\ rBlock' = n.blk /\ rPos' = n.pos /\ rIter' = n.iter
     /\ IF n.res = Null
        THEN rNulls' = rNulls + 1 /\ rOut' = rOut
        ELSE rNulls' = rNulls /\ rOut' = Append(rOut, n.res)
  /\ UNCHANGED <<rdFrame, img, rWant, rpc, rHead>>

NextRead ==
  \/ NextBlocks
  \/ RtWrite
  \/ RtOpen
  \/ RtNext

\* flushWAL of one snapshot, and one reader over the table it wrote.
SpecRead == InitTables /\ [][NextRead]_vars

\* What the reader returned so far is a prefix of the pairs written, in the
\* order written; after a null nothing more comes, and the pairs returned are
\* all the pairs, entryCount of them.
RoundTrip ==
  rpc = "open" =>
    /\ Len(rOut) <= Len(rWant)
    /\ \A j \in 1..Len(rOut) : rOut[j] = pairOf(rWant[j])
    /\ rNulls > 0 => (Len(rOut) = Len(rWant) /\ Len(rOut) = rHead.entryCount)

\* ------------------------------------- reading the tables of the manifest
\* extractSortKey16 of the keys "a" and "b": the first 16 bytes of blake2b512.
KeyPrefix(k) ==
  IF k = "a"
    THEN <<51, 63, 203, 78, 225, 170, 124, 17, 83, 85, 236, 102, 206, 172, 145, 124>>
    ELSE <<192, 41, 194, 75, 44, 137, 219, 3, 127, 191, 139, 4, 147, 5, 105, 253>>
KeyId(k) == IF k = "a" THEN 1 ELSE 2
\* tree.toArray() of a memtable of the engine: one byte keys and values.
treeArray(t) ==
  LET rec(k) == [key |-> KeyId(k), klen |-> 1, vlen |-> 1, prefix |-> KeyPrefix(k)] IN
  (IF t["a"] # NoVal THEN <<rec("a")>> ELSE <<>>) \o (IF t["b"] # NoVal THEN <<rec("b")>> ELSE <<>>)

\* forEach(pushRecord) and the last flushBlock(), from record i of srt on.
RECURSIVE pushAll(_, _, _, _, _)
pushAll(srt, i, bs, ps, cs) ==
  IF i > Len(srt) THEN flushBlock(bs, ps, cs)
  ELSE IF cs + recLen(srt[i]) > BLOCK
         THEN pushAll(srt, i + 1, flushBlock(bs, ps, cs), <<srt[i]>>, 2 + recLen(srt[i]))
         ELSE pushAll(srt, i + 1, bs, Append(ps, srt[i]), cs + recLen(srt[i]))
blocksOf(t) == pushAll(sortByPrefix(treeArray(t)), 1, <<>>, <<>>, 2)

\* A little-endian field of n bytes starting at byte i of prefix p, as far as
\* it can be told from an offset or a count inside the file: FILE_SIZE stands
\* for every value at or above it.
RECURSIVE leField(_, _, _)
leField(p, i, n) ==
  IF n = 0 THEN 0
  ELSE LET hi == leField(p, i + 1, n - 1) IN
       IF hi >= FILE_SIZE \div 256 THEN FILE_SIZE ELSE hi * 256 + p[i]

\* The manifest entries whose 48 bytes addEntry wrote at the offset of table
\* t's meta block after the table was written.
entryOver(t) ==
  {n \in (t + 1)..manifest : manifestEntryTail(n) = entries[t].metaOff /\ t \in clobbered}

\* decodeTableMeta of 48 bytes of a manifest entry [level u16, reserved u16,
\* metaOff u64, metaLen u32, minPrefix, maxPrefix]: indexOff, indexLen and
\* entryCount are bytes 32..48, the entry's maxPrefix.
metaFromEntry(maxPrefix) ==
  [indexOff |-> leField(maxPrefix, 1, 8), indexLen |-> leField(maxPrefix, 9, 4),
   entryCount |-> leField(maxPrefix, 13, 4)]

\* requestTable's maxPrefix argument: the largest prefix pushRecord saw.
maxPrefixOf(rs) == sortByPrefix(rs)[Len(rs)].prefix

\* Table t as the file holds it (every entry is that of a flush of FlushedTree).
diskImage(t) ==
  LET w == tableBlob(entries[t].metaOff, blocksOf(tables[t])) IN
  IF entryOver(t) = {} THEN w
  ELSE [w EXCEPT !.meta = metaFromEntry(maxPrefixOf(treeArray(FlushedTree)))]

\* readEntryHead(t - 1) and new TableReader(file, head).  A read at an
\* index offset past the end of the file throws or returns no byte.
RtOpenTable(t) ==
  /\ pc = "yield" /\ mfWrites = {} /\ rpc = "closed"
  /\ t \in 1..Len(tables) /\ t <= manifest /\ tables[t] # NoTable
  /\ img' = diskImage(t)
  /\ rWant' = sortByPrefix(treeArray(tables[t]))
  /\ rHead' = readEntryHead(img', entries[t])
  /\ rpc' \in (IF img'.meta.indexOff >= FILE_SIZE THEN {"open", "failed"} ELSE {"open"})
  /\ rI' = 1 /\ rBlock' = NoBlock /\ rPos' = 0 /\ rIter' = 0
  /\ UNCHANGED <<rdFrame, rOut, rNulls>>

\* The reader is dropped.
RtClose ==
  /\ rpc = "failed" \/ (rpc = "open" /\ rNulls = MaxNulls)
  /\ img' = NoImg /\ rWant' = <<>> /\ rpc' = "closed" /\ rHead' = NoHead /\ rI' = 1
  /\ rBlock' = NoBlock /\ rPos' = 0 /\ rIter' = 0 /\ rOut' = <<>> /\ rNulls' = 0
  /\ UNCHANGED rdFrame

NextRoundTrip ==
  \/ (rpc = "closed" /\ NextTables)
  \/ \E t \in {1, manifest} : RtOpenTable(t)
  \/ RtNext
  \/ RtClose

\* The table layer with a reader over the first or the newest of the listed
\* tables, one at a time.
SpecRoundTrip == InitTables /\ [][NextRoundTrip]_vars

\* C39: reading a table flushWAL wrote, through readEntryHead and repeated
\* next(), gives the pairs of the flushed snapshot, each once, in the order
\* written, then null and null again; the pairs are entryCount many.
C39_FlushRoundTrip == rpc # "failed" /\ RoundTrip
====
